---- MODULE Spec2Model ----
(***************************************************************************)
(* Model of the playback engine of resona (AudioPlayer, part_000 lines     *)
(* 385-827): the engine fields guarded by ap.mutex, the beep mixer and     *)
(* control wrappers guarded by the speaker lock, the foreground calls      *)
(* (Play, PlayRadioStation, Pause, Resume, TogglePause, Stop, IsPlaying,   *)
(* IsPaused) cut at every lock acquisition, and the speaker's pull loop    *)
(* that streams the mixer and runs the completion callback.                *)
(***************************************************************************)
EXTENDS Integers, Sequences, FiniteSets, TLC

\* ---- bounds -------------------------------------------------------------
MaxSessions == 2      \* decode chains that can be created in one run
MaxUrls == 3          \* longest candidate list handed to playWithFallback
MaxClock == 9         \* last instant of the simulated clock
MaxPulls == 3         \* Stream calls that deliver frames in one run
MaxLines == 3         \* lines of a playlist body
TapCalls == 2         \* calls the control context issues in the Sample Tap scenario
RaceCalls == 1        \* calls each thread issues in the two-thread scenario
MaxTracks == 2        \* longest playlist
MaxTicks == 2         \* tick commands that can be outstanding together
MaxInput == 1         \* longest text typed into an input buffer
MaxUiClock == 1       \* last instant of the clock in the UI scenario
MaxStations == 2      \* stations the radio library can hold

\* ---- inputs -------------------------------------------------------------
\* A path or URL is named after what opening and decoding it does.
UrlSrc == {"u_ok", "u_conn", "u_status", "u_dec"}
FileSrc == {"f_ok", "f_open", "f_dec", "f_unsup", ""}
Threads == {"ui", "bg"}
NoErr == [idx |-> 0, kind |-> "none"]

\* strings.HasPrefix(filePath, "http://") || HasPrefix(filePath, "https://")
IsURL(p) == p \in UrlSrc

\* an extension check that lets every path through
isFileSupportedAny(p) == TRUE

\* extension is one of .mp3 .wav .flac .ogg
isFileSupported(p) == p \in {"f_ok", "f_open", "f_dec"}

\* outcome of the open half of playDirectly: "" when a reader is returned,
\* else the kind of the error returned (a non-200 body is closed first)
OpenErr(p) ==
  CASE p = "u_conn" -> "conn"
    [] p = "u_status" -> "status"
    [] p \in {"f_open", ""} -> "open"
    [] OTHER -> ""

\* outcome of the decode half of playDirectly on an open reader
DecodeErr(p) ==
  CASE p \in {"u_dec", "f_dec"} -> "decode"
    [] p = "f_unsup" -> "unsupported"
    [] OTHER -> ""

\* candidate lists: every list of 1..MaxUrls URLs
ListSrc == {"u_ok", "u_conn", "u_dec"}
UrlLists == UNION {[1..n -> ListSrc] : n \in 1..MaxUrls}

\* stations: the three URL fields PlayRadioStation reads, and the nil pointer
NilStation == [nil |-> TRUE, StreamURLs |-> <<>>, StreamURL |-> "", URL |-> ""]
Stations ==
  {[nil |-> FALSE, StreamURLs |-> l, StreamURL |-> l[1], URL |-> "u_ok"] : l \in UrlLists}
  \cup {[nil |-> FALSE, StreamURLs |-> <<>>, StreamURL |-> s, URL |-> u] :
          s \in {"", "u_ok", "u_conn"}, u \in {"u_ok", "u_dec", "f_unsup", ""}}
  \cup {NilStation}

VARIABLES
  ctrl,         \* ap.ctrl: 0 is nil, else the id of the control wrapper
  isPlaying,    \* ap.isPlaying
  isPaused,     \* ap.isPaused
  currentSong,  \* ap.currentSong
  startTime,    \* ap.startTime
  pausedTime,   \* ap.pausedTime
  duration,     \* ap.duration
  mixer,        \* ids of the chains attached to ap.mixer
  sessions,     \* per created session: its reader, decoder, control wrapper and chain
  mutexW,       \* holder of ap.mutex as writer, or "none"
  mutexR,       \* holders of ap.mutex as readers
  speakerMu,    \* holder of the speaker lock, or "free"
  th,           \* per foreground thread: position and locals of the running call
  last,         \* per foreground thread: error returned by the last call, NoErr for nil
  apc,          \* position of the speaker's pull loop
  todo,         \* chains still to stream in the current pull
  cur,          \* chain whose callback the pull loop is running
  now,          \* the clock
  played,       \* time the current session has spent Playing
  radioUsed,    \* a PlayRadioStation call has been issued
  callsLeft,    \* per thread: calls still to issue, -1 when unlimited
  audioSamples, \* ap.audioSamples: 0 is nil, else the address of its backing array
  heap,         \* the backing arrays in use, by address
  sampleR,      \* holders of ap.sampleMutex as readers
  got,          \* address of the slice GetAudioSamples last handed to the caller
  pull,         \* the last Stream call of a Sample Tap: what the source gave, what the tap gave
  pulls,        \* Stream calls made on Sample Taps so far
  scan,         \* the playlist parser: the lines, the scanner position, the urls
  m,            \* the UI model: view, now-playing song and station, playlist, radio timer
  ticks,        \* tick commands handed to the runtime and not yet delivered
  radioBrowser,    \* the RadioBrowser: view, stations, form fields, input state, and
                   \* inputAsked: StartInput was called and no input has ended since
  settingsBrowser, \* the SettingsBrowser: view, selections, the theme in use
  libraryManager,  \* the LibraryManager: folders and songs
  radioLibrary     \* the RadioLibrary: stations, and the ClearLibrary calls made on it

engineVars == <<ctrl, isPlaying, isPaused, currentSong, startTime, pausedTime, duration>>
lockVars == <<mutexW, mutexR, speakerMu>>
audioVars == <<apc, todo, cur>>
clockVars == <<now, played>>
tapVars == <<audioSamples, heap, sampleR, got, pull, pulls>>
uiVars == <<m, ticks, radioBrowser, settingsBrowser, libraryManager, radioLibrary>>
vars == <<ctrl, isPlaying, isPaused, currentSong, startTime, pausedTime, duration, mixer,
          sessions, mutexW, mutexR, speakerMu, th, last, apc, todo, cur, now,
          played, radioUsed, callsLeft, audioSamples, heap, sampleR, got, pull, pulls,
          scan, m, ticks, radioBrowser, settingsBrowser, libraryManager, radioLibrary>>

Idle == [pc |-> "idle", op |-> "none", fp |-> "", st |-> NilStation, urls |-> <<>>,
         idx |-> 0, lastErr |-> NoErr, rdr |-> FALSE, sess |-> 0, rc |-> 0,
         tried |-> <<>>]


\* no Stream call made yet
NoPull == [n |-> 0, ok |-> FALSE, f |-> <<0, 0>>, err |-> "",
           out |-> [n |-> 0, ok |-> FALSE, f |-> <<0, 0>>], outErr |-> "",
           window |-> 0, heard |-> FALSE, stored |-> FALSE]

\* no playlist handed to a parser
NoScan == [fmt |-> "none", body |-> <<>>, pos |-> 0, urls |-> <<>>, ret |-> "none"]

\* ---- the UI: data ------------------------------------------------------------
\* A song is named after what playing its file does; DurationSecs is 0 when
\* the scan could not tell the duration.
NilSong == [Title |-> "nil", FilePath |-> "", DurationSecs |-> 0]
Song(p, d) == [Title |-> p, FilePath |-> p, DurationSecs |-> d]
SongSet == {Song("f_ok", 2), Song("f_open", 0)}

\* the playlists the library context or a search can produce
Playlists == UNION {[1..n -> SongSet] : n \in 1..MaxTracks}

\* the entry that stands for an empty library
NoLibraryLoaded == [Title |-> "No library loaded", FilePath |-> "", DurationSecs |-> 0]

\* the folders that can be added
Folders == {"A", "B"}

\* texts are sequences of characters; the default URL of the forms is
\* abbreviated to its extension
groovesalad == <<"p", "l", "s">>
Typed == {"a"}

\* a station of the radio list is named by its URL
UiStations == {"u_ok"}

\* initialModel: the player's state is InitEngine; st is the stored station
\* list and lib the stored library (NewRadioBrowser shows the quick add modal
\* when there is no station)
initialModel(st, lib) ==
  /\ m = [currentView |-> "library", playingSong |-> NilSong, playingStation |-> "nil",
          nowPlayingFocused |-> FALSE, controlSelected |-> 1,
          currentPlaylist |-> <<>>, currentTrackIndex |-> 0,
          radioStartTime |-> 0, radioPausedTime |-> 0, radioWasPaused |-> FALSE]
  /\ ticks = 1
  /\ radioLibrary = [stations |-> st, clears |-> 0]
  /\ radioBrowser = [currentView |-> IF Len(st) = 0 THEN "quickadd" ELSE "list",
                     stations |-> st, selected |-> 0,
                     quickURL |-> IF Len(st) = 0 THEN groovesalad ELSE <<>>,
                     quickName |-> <<>>, formName |-> <<>>, formURL |-> <<>>,
                     formRest |-> [i \in 2..6 |-> <<>>], formField |-> 0, inputMode |-> FALSE, inputBuffer |-> <<>>,
                     inputAsked |-> FALSE]
  /\ settingsBrowser = [currentView |-> "main", selected |-> 0, themeSelected |-> 0,
                        confirmAction |-> "", confirmSelected |-> 0, theme |-> 0]
  /\ libraryManager = [folders |-> lib.folders, songs |-> lib.songs, clears |-> 0]

\* a first start: no station, no library file
FreshInstall == initialModel(<<>>, [folders |-> <<>>, songs |-> <<NoLibraryLoaded>>])

\* NewAudioPlayer
InitEngine ==
  /\ ctrl = 0 /\ isPlaying = FALSE /\ isPaused = FALSE /\ currentSong = ""
  /\ startTime = 0 /\ pausedTime = 0 /\ duration = 0 /\ mixer = {} /\ sessions = <<>>
  /\ mutexW = "none" /\ mutexR = {} /\ speakerMu = "free"
  /\ th = [t \in Threads |-> Idle] /\ last = [t \in Threads |-> NoErr]
  /\ apc = "idle" /\ todo = {} /\ cur = 0
  /\ now = 0 /\ played = 0 /\ radioUsed = FALSE
  /\ audioSamples = 0 /\ heap = [a \in {} |-> <<>>] /\ sampleR = {} /\ got = 0
  /\ pull = NoPull /\ pulls = 0
  /\ scan = NoScan

Init == InitEngine /\ callsLeft = [t \in Threads |-> -1] /\ FreshInstall

\* ---- ap.mutex (sync.RWMutex) and speaker.Lock ----------------------------
CanLock == mutexW = "none" /\ mutexR = {}
CanRLock == mutexW = "none"
SpeakerFree == speakerMu = "free"

Set(t, r) == th' = [th EXCEPT ![t] = r]
At(t, p) == th[t].pc = p

\* a call of thread record r returns: the thread goes idle and the error (or,
\* for a query, the answer in the kind field) is handed to the caller; what the
\* call was given and what it tried stays readable until the next call
Return(t, r, err) ==
  /\ th' = [th EXCEPT ![t] = [Idle EXCEPT !.op = r.op, !.fp = r.fp, !.st = r.st,
                                           !.urls = r.urls, !.tried = r.tried,
                                           !.rdr = r.rdr]]
  /\ last' = [last EXCEPT ![t] = err]

Answer(b) == [idx |-> 0, kind |-> IF b THEN "true" ELSE "false"]

\* a call starts
Begin(t) ==
  /\ At(t, "idle")
  /\ apc # "panic"
  /\ callsLeft[t] # 0
  /\ callsLeft' = [callsLeft EXCEPT ![t] = IF @ > 0 THEN @ - 1 ELSE @]

\* a call that returns no error starts: the previous result is dropped
BeginVoid(t) == Begin(t) /\ last' = [last EXCEPT ![t] = NoErr]

\* ---- Stop ----------------------------------------------------------------
Stop_Call(t) ==
  /\ BeginVoid(t)
  /\ Set(t, [Idle EXCEPT !.pc = "stop_lock", !.op = "Stop"])
  /\ UNCHANGED <<engineVars, mixer, sessions, lockVars, audioVars, clockVars, radioUsed, tapVars, scan, uiVars>>

\* ap.mutex.Lock()
Stop_Lock(t) ==
  /\ At(t, "stop_lock")
  /\ CanLock
  /\ mutexW' = t
  /\ Set(t, [th[t] EXCEPT !.pc = IF ctrl # 0 THEN "stop_spk1" ELSE "stop_spk2"])
  /\ UNCHANGED <<engineVars, mixer, sessions, mutexR, speakerMu, last, audioVars, clockVars, radioUsed, tapVars, scan, uiVars, callsLeft>>

\* speaker.Lock() of the ctrl != nil branch
Stop_LockSpeaker1(t) ==
  /\ At(t, "stop_spk1")
  /\ SpeakerFree
  /\ speakerMu' = t
  /\ Set(t, [th[t] EXCEPT !.pc = "stop_detach"])
  /\ UNCHANGED <<engineVars, mixer, sessions, mutexW, mutexR, last, audioVars, clockVars, radioUsed, tapVars, scan, uiVars, callsLeft>>

\* ap.ctrl.Streamer = nil; speaker.Unlock(); ap.ctrl = nil
Stop_Detach(t) ==
  /\ At(t, "stop_detach")
  /\ sessions' = [sessions EXCEPT ![ctrl].streamerNil = TRUE]
  /\ speakerMu' = "free"
  /\ ctrl' = 0
  /\ Set(t, [th[t] EXCEPT !.pc = "stop_spk2"])
  /\ UNCHANGED <<isPlaying, isPaused, currentSong, startTime, pausedTime, duration, mixer, mutexW, mutexR, last, audioVars, clockVars, radioUsed, tapVars, scan, uiVars, callsLeft>>

\* speaker.Lock() before ap.mixer.Clear()
Stop_LockSpeaker2(t) ==
  /\ At(t, "stop_spk2")
  /\ SpeakerFree
  /\ speakerMu' = t
  /\ Set(t, [th[t] EXCEPT !.pc = "stop_clear"])
  /\ UNCHANGED <<engineVars, mixer, sessions, mutexW, mutexR, last, audioVars, clockVars, radioUsed, tapVars, scan, uiVars, callsLeft>>

\* Stop without ap.mixer.Clear()
StopKeepsMixer(mx) == mx

\* what Stop leaves in the mixer
StopClearMixer(mx) == {}

\* ap.mixer.Clear(); speaker.Unlock(); flags and currentSong reset; deferred
\* ap.mutex.Unlock(); then Stop returns, to its caller Play or to the thread
Stop_Clear(t) ==
  /\ At(t, "stop_clear")
  /\ mixer' = StopClearMixer(mixer)
  /\ speakerMu' = "free"
  /\ isPlaying' = FALSE
  /\ isPaused' = FALSE
  /\ currentSong' = ""
  /\ mutexW' = "none"
  /\ IF th[t].op = "Stop"
       THEN Return(t, th[t], NoErr)
       ELSE /\ Set(t, [th[t] EXCEPT !.pc = IF IsURL(th[t].fp) THEN "fb_loop" ELSE "pd_open"])
            /\ UNCHANGED last
  /\ UNCHANGED <<ctrl, startTime, pausedTime, duration, sessions, mutexR, audioVars, clockVars, radioUsed, tapVars, scan, uiVars, callsLeft>>

\* ---- Play, playWithFallback, PlayRadioStation ------------------------------
\* a call that can open a new decode chain needs a free session id
CanCreate(l) ==
  (\E i \in DOMAIN l : OpenErr(l[i]) = "" /\ DecodeErr(l[i]) = "")
     => Len(sessions) < MaxSessions

\* Play up to its first blocking point: an unsupported local path returns at
\* once, anything else goes on to ap.Stop()
Play_Call(t, p) ==
  /\ Begin(t)
  /\ CanCreate(<<p>>)
  /\ IF ~IsURL(p) /\ ~isFileSupported(p)
       THEN Return(t, [Idle EXCEPT !.op = "Play", !.fp = p], [idx |-> 0, kind |-> "unsupported"])
       ELSE /\ Set(t, [Idle EXCEPT !.pc = "stop_lock", !.op = "Play", !.fp = p,
                                   !.urls = IF IsURL(p) THEN <<p>> ELSE <<>>])
            /\ UNCHANGED last
  /\ UNCHANGED <<engineVars, mixer, sessions, lockVars, audioVars, clockVars, radioUsed, tapVars, scan, uiVars>>

\* a PlayRadioStation that prefers the single StreamURL to the list
StationUrlsSingleFirst(st) ==
  IF st.StreamURL # "" THEN <<st.StreamURL>>
  ELSE IF Len(st.StreamURLs) > 0 THEN st.StreamURLs
  ELSE <<st.URL>>

\* the candidate list PlayRadioStation hands to playWithFallback
StationUrls(st) ==
  IF Len(st.StreamURLs) > 0 THEN st.StreamURLs
  ELSE IF st.StreamURL # "" THEN <<st.StreamURL>>
  ELSE <<st.URL>>

\* PlayRadioStation up to the call of playWithFallback
PlayRadioStation_Call(t, st) ==
  /\ Begin(t)
  /\ radioUsed' = TRUE
  /\ IF st.nil
       THEN Return(t, [Idle EXCEPT !.op = "PlayRadioStation", !.st = st],
                   [idx |-> 0, kind |-> "nil"])
       ELSE /\ CanCreate(StationUrls(st))
            /\ Set(t, [Idle EXCEPT !.pc = "fb_loop", !.op = "PlayRadioStation",
                                   !.st = st, !.urls = StationUrls(st)])
            /\ UNCHANGED last
  /\ UNCHANGED <<engineVars, mixer, sessions, lockVars, audioVars, clockVars, tapVars, scan, uiVars>>

\* the index playWithFallback tries after having tried the first i candidates
NextCandidate(i) == i + 1

\* one turn of the loop of playWithFallback: the next candidate goes to
\* playDirectly, or the list is used up and the last error is returned wrapped
playWithFallback_Loop(t) ==
  /\ At(t, "fb_loop")
  /\ IF th[t].idx < Len(th[t].urls)
       THEN /\ Set(t, [th[t] EXCEPT !.idx = NextCandidate(th[t].idx),
                                    !.fp = th[t].urls[NextCandidate(th[t].idx)],
                                    !.pc = "pd_open"])
            /\ UNCHANGED last
       ELSE Return(t, th[t], th[t].lastErr)
  /\ UNCHANGED <<engineVars, mixer, sessions, lockVars, audioVars, clockVars, radioUsed, tapVars, scan, uiVars, callsLeft>>

\* playWithFallback keeping the first error instead of the last
AfterFailureKeepsFirst(r, kind) ==
  [r EXCEPT !.pc = "fb_loop",
            !.lastErr = IF r.lastErr = NoErr THEN [idx |-> r.idx, kind |-> kind] ELSE r.lastErr]

\* where a failed attempt of playWithFallback goes: back to the loop
AfterFailure(r, kind) ==
  [r EXCEPT !.pc = "fb_loop", !.lastErr = [idx |-> r.idx, kind |-> kind]]

\* playWithFallback going on to the next candidate after a success
pdReturnKeepsTrying(t, r, kind) ==
  IF r.urls = <<>>
    THEN Return(t, r, [idx |-> 0, kind |-> IF kind = "" THEN "none" ELSE kind])
  ELSE /\ th' = [th EXCEPT ![t] = AfterFailure(r, kind)]
       /\ UNCHANGED last

\* playDirectly returns (kind = "" is nil) to Play or to playWithFallback
pdReturn(t, r, kind) ==
  IF kind = ""
    THEN Return(t, r, NoErr)
  ELSE IF r.urls = <<>>
    THEN Return(t, r, [idx |-> 0, kind |-> kind])
  ELSE /\ th' = [th EXCEPT ![t] = AfterFailure(r, kind)]
       /\ UNCHANGED last

\* ---- playDirectly ----------------------------------------------------------
\* whether the open half leaves a reader open: a failed connect or os.Open
\* returns none, and the body of a non-200 response is closed before the return
ReaderAfterOpen(p) == OpenErr(p) = ""

\* open the file or the HTTP stream
playDirectly_Open(t) ==
  /\ At(t, "pd_open")
  /\ LET r == [th[t] EXCEPT !.tried = Append(@, th[t].fp),
                            !.rdr = ReaderAfterOpen(th[t].fp)]
     IN IF OpenErr(r.fp) # ""
          THEN pdReturn(t, r, OpenErr(r.fp))
          ELSE /\ Set(t, [r EXCEPT !.pc = "pd_decode"])
               /\ UNCHANGED last
  /\ UNCHANGED <<engineVars, mixer, sessions, lockVars, audioVars, clockVars, radioUsed, tapVars, scan, uiVars, callsLeft>>

NewSession == [readerOpen |-> TRUE, streamerOpen |-> TRUE, streamerNil |-> FALSE,
               paused |-> FALSE, chainCtrl |-> 0, exhausted |-> FALSE,
               sampleBuffer |-> <<>>, heard |-> FALSE]

\* an error return of the decode half that forgets reader.Close()
LeakReader(open) == open

\* reader.Close() on the error returns of the decode half
CloseReader(open) == FALSE

\* a failed decode that has already put its chain into the mixer
DecodeFailureAttaches(mx, n) == mx \cup {n}

\* the mixer after a failed decode: ap.mixer.Add is not reached
DecodeFailureMixer(mx, n) == mx

\* decode; on failure close the reader and return the error; on success the
\* reader belongs to the new session
playDirectly_Decode(t) ==
  /\ At(t, "pd_decode")
  /\ IF DecodeErr(th[t].fp) # ""
       THEN /\ pdReturn(t, [th[t] EXCEPT !.rdr = CloseReader(@)], DecodeErr(th[t].fp))
            /\ mixer' = DecodeFailureMixer(mixer, Len(sessions) + 1)
            /\ UNCHANGED sessions
       ELSE /\ sessions' = Append(sessions, NewSession)
            /\ Set(t, [th[t] EXCEPT !.rdr = FALSE, !.sess = Len(sessions) + 1,
                                    !.pc = "pd_lock"])
            /\ UNCHANGED <<last, mixer>>
  /\ UNCHANGED <<engineVars, lockVars, audioVars, clockVars, radioUsed, tapVars, scan, uiVars, callsLeft>>

\* ap.mutex.Lock()
playDirectly_Lock(t) ==
  /\ At(t, "pd_lock")
  /\ CanLock
  /\ mutexW' = t
  /\ Set(t, [th[t] EXCEPT !.pc = "pd_set"])
  /\ UNCHANGED <<engineVars, mixer, sessions, mutexR, speakerMu, last, audioVars, clockVars, radioUsed, tapVars, scan, uiVars, callsLeft>>

\* a Play that keeps the accumulator of the previous session
PlayKeepsAccum(acc) == acc

\* ap.pausedTime = 0
PlayAccum(acc) == 0

\* the fields set under the lock, then ap.mutex.Unlock()
playDirectly_Set(t) ==
  /\ At(t, "pd_set")
  /\ ctrl' = th[t].sess
  /\ isPlaying' = TRUE
  /\ isPaused' = FALSE
  /\ currentSong' = th[t].fp
  /\ startTime' = now
  /\ pausedTime' = PlayAccum(pausedTime)
  /\ played' = 0
  /\ mutexW' = "none"
  /\ Set(t, [th[t] EXCEPT !.pc = "pd_read"])
  /\ UNCHANGED <<duration, mixer, sessions, mutexR, speakerMu, last, audioVars, now, radioUsed, tapVars, scan, uiVars, callsLeft>>

\* the read of ap.ctrl in the argument of beep.Seq, made without the lock
playDirectly_ReadCtrl(t) ==
  /\ At(t, "pd_read")
  /\ Set(t, [th[t] EXCEPT !.rc = ctrl, !.pc = "pd_add"])
  /\ UNCHANGED <<engineVars, mixer, sessions, lockVars, last, audioVars, clockVars, radioUsed, tapVars, scan, uiVars, callsLeft>>

\* ap.mixer.Add(beep.Seq(ctrl, beep.Callback(...))); return nil
playDirectly_Add(t) ==
  /\ At(t, "pd_add")
  /\ mixer' = mixer \cup {th[t].sess}
  /\ sessions' = [sessions EXCEPT ![th[t].sess].chainCtrl = th[t].rc]
  /\ pdReturn(t, th[t], "")
  /\ UNCHANGED <<engineVars, lockVars, audioVars, clockVars, radioUsed, tapVars, scan, uiVars, callsLeft>>

\* ---- Pause, Resume, TogglePause ---------------------------------------------
Pause_Call(t) ==
  /\ BeginVoid(t)
  /\ Set(t, [Idle EXCEPT !.pc = "pause_lock", !.op = "Pause"])
  /\ UNCHANGED <<engineVars, mixer, sessions, lockVars, audioVars, clockVars, radioUsed, tapVars, scan, uiVars>>

Resume_Call(t) ==
  /\ BeginVoid(t)
  /\ Set(t, [Idle EXCEPT !.pc = "pause_lock", !.op = "Resume"])
  /\ UNCHANGED <<engineVars, mixer, sessions, lockVars, audioVars, clockVars, radioUsed, tapVars, scan, uiVars>>

TogglePause_Call(t) ==
  /\ BeginVoid(t)
  /\ Set(t, [Idle EXCEPT !.pc = "pause_lock", !.op = "TogglePause"])
  /\ UNCHANGED <<engineVars, mixer, sessions, lockVars, audioVars, clockVars, radioUsed, tapVars, scan, uiVars>>

\* guards that do not look at isPaused
PauseGuardIgnoresPaused(o) == ctrl # 0 /\ isPlaying

\* a Pause guard that does not look at isPlaying
PauseGuardIgnoresPlaying(o) ==
  CASE o = "Pause" -> ctrl # 0 /\ ~isPaused
    [] o = "Resume" -> ctrl # 0 /\ isPlaying /\ isPaused
    [] OTHER -> ctrl # 0 /\ isPlaying

\* the condition under which each of the three calls touches the sink
PauseGuard(o) ==
  CASE o = "Pause" -> ctrl # 0 /\ isPlaying /\ ~isPaused
    [] o = "Resume" -> ctrl # 0 /\ isPlaying /\ isPaused
    [] OTHER -> ctrl # 0 /\ isPlaying

\* ap.mutex.Lock(); when the guard is false the deferred Unlock follows at once
Pause_Lock(t) ==
  /\ At(t, "pause_lock")
  /\ CanLock
  /\ IF PauseGuard(th[t].op)
       THEN /\ mutexW' = t
            /\ Set(t, [th[t] EXCEPT !.pc = "pause_spk"])
            /\ UNCHANGED last
       ELSE /\ UNCHANGED mutexW
            /\ Return(t, th[t], NoErr)
  /\ UNCHANGED <<engineVars, mixer, sessions, mutexR, speakerMu, audioVars, clockVars, radioUsed, tapVars, scan, uiVars, callsLeft>>

\* speaker.Lock()
Pause_LockSpeaker(t) ==
  /\ At(t, "pause_spk")
  /\ SpeakerFree
  /\ speakerMu' = t
  /\ Set(t, [th[t] EXCEPT !.pc = "pause_apply"])
  /\ UNCHANGED <<engineVars, mixer, sessions, mutexW, mutexR, last, audioVars, clockVars, radioUsed, tapVars, scan, uiVars, callsLeft>>

\* a resume that leaves startTime alone
ResumeKeepsStart(old, clock) == old

\* startTime after a resume
ResumeStart(old, clock) == clock

\* the accumulator after a pause
PauseAccum(acc, start, clock) == acc + (clock - start)

\* a TogglePause that always takes the pause branch
PausingToggleAlwaysPauses(o, paused) == o \in {"Pause", "TogglePause"}

\* the branch taken under the locks: Pause pauses, Resume resumes, TogglePause
\* looks at ap.isPaused
Pausing(o, paused) == o = "Pause" \/ (o = "TogglePause" /\ ~paused)

\* the assignments made under both locks, then speaker.Unlock() and the
\* deferred ap.mutex.Unlock()
Pause_Apply(t) ==
  /\ At(t, "pause_apply")
  /\ LET pausing == Pausing(th[t].op, isPaused)
     IN IF pausing
          THEN /\ sessions' = [sessions EXCEPT ![ctrl].paused = TRUE]
               /\ isPaused' = TRUE
               /\ pausedTime' = PauseAccum(pausedTime, startTime, now)
               /\ startTime' = now
          ELSE /\ sessions' = [sessions EXCEPT ![ctrl].paused = FALSE]
               /\ isPaused' = FALSE
               /\ startTime' = ResumeStart(startTime, now)
               /\ UNCHANGED pausedTime
  /\ speakerMu' = "free"
  /\ mutexW' = "none"
  /\ Return(t, th[t], NoErr)
  /\ UNCHANGED <<ctrl, isPlaying, currentSong, duration, mixer, mutexR, audioVars, clockVars, radioUsed, tapVars, scan, uiVars, callsLeft>>

\* ---- IsPlaying, IsPaused ---------------------------------------------------
IsPlaying_Call(t) ==
  /\ BeginVoid(t)
  /\ Set(t, [Idle EXCEPT !.pc = "q_lock", !.op = "IsPlaying"])
  /\ UNCHANGED <<engineVars, mixer, sessions, lockVars, audioVars, clockVars, radioUsed, tapVars, scan, uiVars>>

IsPaused_Call(t) ==
  /\ BeginVoid(t)
  /\ Set(t, [Idle EXCEPT !.pc = "q_lock", !.op = "IsPaused"])
  /\ UNCHANGED <<engineVars, mixer, sessions, lockVars, audioVars, clockVars, radioUsed, tapVars, scan, uiVars>>

\* ap.mutex.RLock(); without a control handle the cached answer is returned
Query_RLock(t) ==
  /\ At(t, "q_lock")
  /\ CanRLock
  /\ IF ctrl # 0
       THEN /\ mutexR' = mutexR \cup {t}
            /\ Set(t, [th[t] EXCEPT !.pc = "q_spk"])
            /\ UNCHANGED last
       ELSE /\ UNCHANGED mutexR
            /\ Return(t, th[t], Answer(IF th[t].op = "IsPlaying" THEN isPlaying ELSE FALSE))
  /\ UNCHANGED <<engineVars, mixer, sessions, mutexW, speakerMu, audioVars, clockVars, radioUsed, tapVars, scan, uiVars, callsLeft>>

\* speaker.Lock()
Query_LockSpeaker(t) ==
  /\ At(t, "q_spk")
  /\ SpeakerFree
  /\ speakerMu' = t
  /\ Set(t, [th[t] EXCEPT !.pc = "q_read"])
  /\ UNCHANGED <<engineVars, mixer, sessions, mutexW, mutexR, last, audioVars, clockVars, radioUsed, tapVars, scan, uiVars, callsLeft>>

\* actualPaused := ap.ctrl.Paused; speaker.Unlock(); return; deferred RUnlock
Query_Read(t) ==
  /\ At(t, "q_read")
  /\ speakerMu' = "free"
  /\ mutexR' = mutexR \ {t}
  /\ Return(t, th[t], Answer(IF th[t].op = "IsPlaying"
                                THEN isPlaying /\ ~sessions[ctrl].paused
                                ELSE sessions[ctrl].paused))
  /\ UNCHANGED <<engineVars, mixer, sessions, mutexW, audioVars, clockVars, radioUsed, tapVars, scan, uiVars, callsLeft>>

\* the answers of the queries in a state where no call holds a lock
IsPlaying == IF ctrl # 0 THEN isPlaying /\ ~sessions[ctrl].paused ELSE isPlaying
IsPaused == IF ctrl # 0 THEN sessions[ctrl].paused ELSE FALSE

\* GetPosition without the stopped case
GetPositionNoStoppedCase ==
  IF isPaused THEN pausedTime ELSE pausedTime + (now - startTime)

\* GetPosition, in clock units
GetPosition ==
  IF ~isPlaying /\ ~isPaused THEN 0
  ELSE IF isPaused THEN pausedTime
  ELSE pausedTime + (now - startTime)

\* CurrentSong
CurrentSong == currentSong

\* GetDuration
GetDuration == duration

\* the durations handed to SetDuration: none known, a negative one, a short
\* track and one as long as the clock runs
DurationValues == {-1, 0, 3, MaxClock}

\* SetDuration: ap.mutex.Lock(); ap.duration = duration; deferred Unlock
SetDuration_Call(t, d) ==
  /\ BeginVoid(t)
  /\ CanLock
  /\ duration' = d
  /\ Set(t, [Idle EXCEPT !.op = "SetDuration"])
  /\ UNCHANGED <<ctrl, isPlaying, isPaused, currentSong, startTime, pausedTime, mixer, sessions, lockVars, audioVars, clockVars, radioUsed, tapVars, scan, uiVars>>

Zero == [num |-> 0, den |-> 1]
One == [num |-> 1, den |-> 1]

\* position / duration without the clamp to 1
ProgressNoUpperClamp(pos, dur) ==
  IF dur <= 0 THEN Zero
  ELSE IF pos < 0 THEN Zero
  ELSE [num |-> pos, den |-> dur]

\* the arithmetic of GetProgress on a position and a duration, the quotient
\* kept as the fraction num/den
Progress(pos, dur) ==
  IF dur <= 0 THEN Zero
  ELSE IF pos > dur THEN One
  ELSE IF pos < 0 THEN Zero
  ELSE [num |-> pos, den |-> dur]

\* GetProgress
GetProgress == Progress(GetPosition, GetDuration)

\* ---- the speaker's pull loop ----------------------------------------------
\* speaker update: lock, then stream every streamer of the mixer
Audio_Lock ==
  /\ apc = "idle"
  /\ SpeakerFree
  /\ mixer # {}
  /\ speakerMu' = "audio"
  /\ apc' = "mix"
  /\ todo' = mixer
  /\ UNCHANGED <<engineVars, mixer, sessions, mutexW, mutexR, th, last, cur, clockVars, radioUsed, tapVars, scan, uiVars, callsLeft>>

\* Seq streams the control wrapper of chain c: a nil wrapper pointer panics,
\* a wrapper without streamer is drained, a paused one plays silence, a
\* running one yields samples or ends (end of stream or decode error)
Audio_Stream(c) ==
  /\ apc = "mix"
  /\ c \in todo
  /\ c \in DOMAIN sessions
  /\ LET k == sessions[c].chainCtrl
     IN IF k = 0
          THEN /\ apc' = "panic"
               /\ UNCHANGED <<todo, cur, sessions>>
        ELSE IF sessions[k].streamerNil
          THEN /\ apc' = "cb"
               /\ cur' = c
               /\ UNCHANGED <<todo, sessions>>
        ELSE IF sessions[k].paused
          THEN /\ todo' = todo \ {c}
               /\ UNCHANGED <<apc, cur, sessions>>
        ELSE \/ /\ todo' = todo \ {c}
                /\ UNCHANGED <<apc, cur, sessions>>
             \/ /\ sessions' = [sessions EXCEPT ![k].exhausted = TRUE]
                /\ apc' = "cb"
                /\ cur' = c
                /\ UNCHANGED todo
  /\ UNCHANGED <<engineVars, mixer, lockVars, th, last, clockVars, radioUsed, tapVars, scan, uiVars, callsLeft>>

\* the callback's ap.mutex.Lock()
Callback_Lock ==
  /\ apc = "cb"
  /\ CanLock
  /\ mutexW' = "audio"
  /\ apc' = "cb_set"
  /\ UNCHANGED <<engineVars, mixer, sessions, mutexR, speakerMu, th, last, todo, cur, clockVars, radioUsed, tapVars, scan, uiVars, callsLeft>>

\* ap.isPlaying = false; ap.isPaused = false; ap.mutex.Unlock()
Callback_Clear ==
  /\ apc = "cb_set"
  /\ isPlaying' = FALSE
  /\ isPaused' = FALSE
  /\ mutexW' = "none"
  /\ apc' = "cb_close"
  /\ UNCHANGED <<ctrl, currentSong, startTime, pausedTime, duration, mixer, sessions, mutexR, speakerMu, th, last, todo, cur, clockVars, radioUsed, tapVars, scan, uiVars, callsLeft>>

\* streamer.Close(); reader.Close(); the drained Seq leaves the mixer
Callback_Close ==
  /\ apc = "cb_close"
  /\ sessions' = [sessions EXCEPT ![cur].streamerOpen = FALSE, ![cur].readerOpen = FALSE]
  /\ mixer' = mixer \ {cur}
  /\ todo' = todo \ {cur}
  /\ cur' = 0
  /\ apc' = "mix"
  /\ UNCHANGED <<engineVars, lockVars, th, last, clockVars, radioUsed, tapVars, scan, uiVars, callsLeft>>

\* the pull is over: speaker unlock
Audio_Unlock ==
  /\ apc = "mix"
  /\ todo = {}
  /\ speakerMu' = "free"
  /\ apc' = "idle"
  /\ UNCHANGED <<engineVars, mixer, sessions, mutexW, mutexR, th, last, todo, cur, clockVars, radioUsed, tapVars, scan, uiVars, callsLeft>>

\* ---- the clock -------------------------------------------------------------
Tick ==
  /\ now < MaxClock
  /\ now' = now + 1
  /\ played' = IF isPlaying /\ ~isPaused THEN played + 1 ELSE played
  /\ UNCHANGED <<engineVars, mixer, sessions, lockVars, th, last, audioVars, radioUsed, tapVars, scan, uiVars, callsLeft>>

\* ---- the Sample Tap and the amplitude snapshot ----------------------------
bufferSize == 1024
numBands == 24

\* the stereo frames a source delivers, one value per pull, and the frame
\* counts a pull can return
Frames == {<<0, 0>>, <<1, 1>>, <<1, -1>>}
PullSizes == {0, 16, 512}
SrcErrs == {"", "decode"}

Min(a, b) == IF a < b THEN a ELSE b
Max(a, b) == IF a > b THEN a ELSE b

\* mixed := (samples[i][0] + samples[i][1]) / 2.0, kept as twice its value
Mixed2(f) == f[1] + f[2]

\* append n samples of value v to a buffer held as runs of equal samples
AppendRun(buf, v, n) ==
  IF n = 0 THEN buf
  ELSE IF buf # <<>> /\ buf[Len(buf)].v = v
    THEN [buf EXCEPT ![Len(buf)].n = @ + n]
  ELSE Append(buf, [v |-> v, n |-> n])

\* len(s.sampleBuffer)
RECURSIVE BufLen(_)
BufLen(buf) == IF buf = <<>> THEN 0 ELSE Head(buf).n + BufLen(Tail(buf))

\* sum of the squares of samples lo..hi-1 of a buffer whose first run starts at off
RECURSIVE SumSq(_, _, _, _)
SumSq(buf, off, lo, hi) ==
  IF buf = <<>> THEN 0
  ELSE LET r == Head(buf)
           ov == Min(hi, off + r.n) - Max(lo, off)
       IN (IF ov > 0 THEN ov * r.v * r.v ELSE 0) + SumSq(Tail(buf), off + r.n, lo, hi)

\* the band limits analyzeAndStore uses on a window of len samples
BandSize(len) == len \div numBands
BandStart(b, len) == (b - 1) * BandSize(len)
BandEnd(b, len) == Min(BandStart(b, len) + BandSize(len), len)

\* an amplitude sqrt(sum / n) of samples kept doubled: the value is sqrt(sq / (4 n))
Silent == [sq |-> 0, n |-> 1]

\* amplitudes[band] for every band
Amplitudes(buf) ==
  [b \in 1..numBands |->
     [sq |-> SumSq(buf, 0, BandStart(b, BufLen(buf)), BandEnd(b, BufLen(buf))),
      n |-> BandEnd(b, BufLen(buf)) - BandStart(b, BufLen(buf))]]

\* a GetAudioSamples that answers an empty slice while nothing is stored
NoSamples == <<>>

\* make([]float64, 24)
SilentSamples == [b \in 1..numBands |-> Silent]

\* backing arrays: the one of ap.audioSamples and the one the caller holds
Addrs == 1..3
FreshAddr(used) == CHOOSE a \in Addrs \ used : \A b \in Addrs \ used : a <= b
Live(h, refs) == [a \in refs \ {0} |-> h[a]]

\* n, ok and the caller's buffer after SampleCaptureStreamer.Stream
TapOut(n, ok, f) == [n |-> n, ok |-> ok, f |-> f]

\* SampleCaptureStreamer.Err
TapErr(e) == e

\* a tap that keeps its window after analysing it
KeepBuffer(buf) == buf

\* s.sampleBuffer = s.sampleBuffer[:0]
ClearBuffer(buf) == <<>>

\* Seq streams chain c through its control wrapper and Sample Tap: the source
\* gives n frames of value f, or ends (ok false, with error e or at end of stream)
Audio_StreamTap(c, n, ok, f, e) ==
  /\ apc = "mix"
  /\ c \in todo
  /\ c \in DOMAIN sessions
  /\ LET k == sessions[c].chainCtrl
     IN IF k = 0
          THEN /\ apc' = "panic"
               /\ UNCHANGED <<todo, cur, sessions, pull, pulls>>
        ELSE IF sessions[k].streamerNil
          THEN /\ apc' = "cb"
               /\ cur' = c
               /\ UNCHANGED <<todo, sessions, pull, pulls>>
        ELSE IF sessions[k].paused
          THEN /\ todo' = todo \ {c}
               /\ UNCHANGED <<apc, cur, sessions, pull, pulls>>
        ELSE LET old == sessions[k].sampleBuffer
                 new == IF ok /\ n > 0 THEN AppendRun(old, Mixed2(f), n) ELSE old
                 full == ok /\ n > 0 /\ BufLen(new) >= bufferSize
                 hrd == sessions[k].heard \/ (ok /\ n > 0 /\ f # <<0, 0>>)
             IN /\ ok => e = ""
                /\ ~ok => n = 0
                /\ n > 0 => pulls < MaxPulls
                /\ pulls' = IF n > 0 THEN pulls + 1 ELSE pulls
                /\ pull' = [n |-> n, ok |-> ok, f |-> f, err |-> e,
                            out |-> TapOut(n, ok, f), outErr |-> TapErr(e),
                            window |-> BufLen(new), heard |-> hrd, stored |-> FALSE]
                /\ sessions' = [sessions EXCEPT ![k].sampleBuffer = new,
                                                ![k].heard = hrd,
                                                ![k].exhausted = @ \/ ~ok]
                /\ IF ~ok THEN apc' = "cb" /\ cur' = c /\ UNCHANGED todo
                   ELSE IF full THEN apc' = "tap_store" /\ cur' = c /\ UNCHANGED todo
                   ELSE todo' = todo \ {c} /\ UNCHANGED <<apc, cur>>
  /\ UNCHANGED <<engineVars, mixer, lockVars, th, last, clockVars, radioUsed, callsLeft,
                 audioSamples, heap, sampleR, got, scan, uiVars>>

\* analyzeAndStore on a full window: the new amplitudes replace ap.audioSamples
\* under sampleMutex.Lock(); then the window is cleared and Stream returns
Tap_Store ==
  /\ apc = "tap_store"
  /\ sampleR = {}
  /\ LET k == sessions[cur].chainCtrl
         buf == sessions[k].sampleBuffer
         a == FreshAddr({audioSamples, got})
     IN /\ IF BandSize(BufLen(buf)) = 0
             THEN UNCHANGED <<audioSamples, heap>> /\ pull' = pull
             ELSE /\ audioSamples' = a
                  /\ heap' = Live([x \in Addrs |-> IF x = a THEN Amplitudes(buf)
                                                 ELSE IF x \in DOMAIN heap THEN heap[x]
                                                 ELSE <<>>], {a, got})
                  /\ pull' = [pull EXCEPT !.stored = TRUE]
        /\ sessions' = [sessions EXCEPT ![k].sampleBuffer = ClearBuffer(buf),
                                        ![k].heard = BufLen(ClearBuffer(buf)) > 0 /\ @]
  /\ todo' = todo \ {cur}
  /\ cur' = 0
  /\ apc' = "mix"
  /\ UNCHANGED <<engineVars, mixer, lockVars, th, last, clockVars, radioUsed, callsLeft,
                 sampleR, got, pulls, scan, uiVars>>

\* GetAudioSamples is called
GetAudioSamples_Call(t) ==
  /\ BeginVoid(t)
  /\ Set(t, [Idle EXCEPT !.pc = "gs_rlock", !.op = "GetAudioSamples"])
  /\ UNCHANGED <<engineVars, mixer, sessions, lockVars, audioVars, clockVars, radioUsed,
                 tapVars, scan, uiVars>>

\* ap.sampleMutex.RLock()
GetAudioSamples_RLock(t) ==
  /\ At(t, "gs_rlock")
  /\ sampleR' = sampleR \cup {t}
  /\ Set(t, [th[t] EXCEPT !.pc = "gs_copy"])
  /\ UNCHANGED <<engineVars, mixer, sessions, lockVars, last, audioVars, clockVars,
                 radioUsed, callsLeft, audioSamples, heap, got, pull, pulls, scan, uiVars>>

\* a GetAudioSamples that returns ap.audioSamples itself when one is stored
ReturnedLive(fresh, stored) == IF stored = 0 THEN fresh ELSE stored

\* the slice GetAudioSamples returns: the one it made
ReturnedSlice(fresh, stored) == fresh

\* make and copy (or 24 zeros when nothing is stored); deferred RUnlock; return
GetAudioSamples_Copy(t) ==
  /\ At(t, "gs_copy")
  /\ LET a == FreshAddr({audioSamples, got})
         r == ReturnedSlice(a, audioSamples)
         v == IF audioSamples = 0 THEN SilentSamples ELSE heap[audioSamples]
     IN /\ got' = r
        /\ heap' = Live([x \in Addrs |-> IF x = a THEN v
                                       ELSE IF x \in DOMAIN heap THEN heap[x]
                                       ELSE <<>>], {audioSamples, r})
  /\ sampleR' = sampleR \ {t}
  /\ Return(t, th[t], NoErr)
  /\ UNCHANGED <<engineVars, mixer, sessions, lockVars, audioVars, clockVars, radioUsed,
                 callsLeft, audioSamples, pull, pulls, scan, uiVars>>

\* the caller overwrites the first value of the slice it was handed
Mark == [sq |-> 4, n |-> 1]
Caller_Write(t) ==
  /\ At(t, "idle")
  /\ th[t].op = "GetAudioSamples"
  /\ got # 0
  /\ heap[got][1] # Mark
  /\ heap' = [heap EXCEPT ![got] = [@ EXCEPT ![1] = Mark]]
  /\ UNCHANGED <<engineVars, mixer, sessions, lockVars, th, last, audioVars, clockVars,
                 radioUsed, callsLeft, audioSamples, sampleR, got, pull, pulls, scan, uiVars>>

\* what GetAudioSamples would answer now
GetAudioSamples == IF audioSamples = 0 THEN SilentSamples ELSE heap[audioSamples]

\* ---- playlist resolution -----------------------------------------------------
\* a PLS line after TrimSpace: the text before the first "=", whether there is
\* a "=", and the text after it
PlsKeys == {"File1", "File2", "Filename", "Title1"}
PlsVals == {"http://a/stream", "http://b/stream", "rel/a.mp3"}
PlsLines ==
  {[key |-> k, eq |-> TRUE, val |-> v] : k \in PlsKeys, v \in PlsVals}
    \cup {[key |-> "[playlist]", eq |-> FALSE, val |-> ""],
          [key |-> "File1", eq |-> FALSE, val |-> ""]}

\* an M3U line: its text after TrimSpace and whether blanks surrounded it
M3uTexts == {"", "#EXTM3U", "#EXTINF:-1,x", "http://x/stream", "http://y/stream",
             "rel/a.mp3"}
M3uLines == {[pad |-> b, text |-> x] : b \in BOOLEAN, x \in M3uTexts}

Bodies(lines) == UNION {[1..n -> lines] : n \in 0..MaxLines}
BodiesOf(kind) ==
  IF kind = "pls" THEN Bodies(PlsLines)
  ELSE IF kind = "m3u" THEN Bodies(M3uLines) ELSE {<<>>}

\* strings.HasPrefix(s, "File"), strings.HasPrefix(s, "http"), strings.HasPrefix(s, "#")
HasPrefixFile(k) == k \in {"File1", "File2", "Filename"}
HasPrefixHttp(x) == x \in {"http://a/stream", "http://b/stream", "http://x/stream",
                           "http://y/stream"}
HasPrefixHash(x) == x \in {"#EXTM3U", "#EXTINF:-1,x"}

\* strings.TrimSpace(scanner.Text()) of an M3U line
TrimSpace(l) == l.text

\* resolvePlaylistURL: fetch, status check and choice of the parser by the URL
resolvePlaylistURL_Fetch ==
  /\ scan = NoScan
  /\ \E kind \in {"pls", "m3u", "other"}, outcome \in {"ok", "conn", "status"} :
       \E body \in BodiesOf(kind) :
         scan' = [fmt |-> kind, body |-> body, pos |-> 0, urls |-> <<>>,
                  ret |-> IF outcome = "conn" THEN "err_fetch"
                          ELSE IF outcome = "status" THEN "err_status"
                          ELSE IF kind \notin {"pls", "m3u"} THEN "err_format"
                          ELSE "running"]
  /\ UNCHANGED <<engineVars, mixer, sessions, lockVars, th, last, audioVars, clockVars,
                 radioUsed, callsLeft, tapVars, uiVars>>

\* the test parsePLS makes on a line
PlsLineTaken(l) == HasPrefixFile(l.key) /\ l.eq /\ HasPrefixHttp(l.val)

\* one turn of the scanner loop of parsePLS
parsePLS_Line ==
  /\ scan.ret = "running" /\ scan.fmt = "pls" /\ scan.pos < Len(scan.body)
  /\ LET l == scan.body[scan.pos + 1]
     IN scan' = [scan EXCEPT !.pos = @ + 1,
                             !.urls = IF PlsLineTaken(l) THEN Append(@, l.val) ELSE @]
  /\ UNCHANGED <<engineVars, mixer, sessions, lockVars, th, last, audioVars, clockVars,
                 radioUsed, callsLeft, tapVars, uiVars>>

\* an M3U test that takes every line that is not a comment
M3uLineAnyEntry(x) == x # "" /\ ~HasPrefixHash(x)

\* the test parseM3U makes on a trimmed line
M3uLineTaken(x) == x # "" /\ ~HasPrefixHash(x) /\ HasPrefixHttp(x)

\* one turn of the scanner loop of parseM3U
parseM3U_Line ==
  /\ scan.ret = "running" /\ scan.fmt = "m3u" /\ scan.pos < Len(scan.body)
  /\ LET x == TrimSpace(scan.body[scan.pos + 1])
     IN scan' = [scan EXCEPT !.pos = @ + 1,
                             !.urls = IF M3uLineTaken(x) THEN Append(@, x) ELSE @]
  /\ UNCHANGED <<engineVars, mixer, sessions, lockVars, th, last, audioVars, clockVars,
                 radioUsed, callsLeft, tapVars, uiVars>>

\* the scanner is at the end: the urls, or the no-stream-URL error
ParseResult(urls) == IF Len(urls) = 0 THEN "err_nourl" ELSE "ok"

\* the return of parsePLS and parseM3U
parse_Return ==
  /\ scan.ret = "running" /\ scan.pos = Len(scan.body)
  /\ scan' = [scan EXCEPT !.ret = ParseResult(scan.urls)]
  /\ UNCHANGED <<engineVars, mixer, sessions, lockVars, th, last, audioVars, clockVars,
                 radioUsed, callsLeft, tapVars, uiVars>>

\* ---- the UI: the player as Update sees it ----------------------------------
\* Update runs on one goroutine and every AudioPlayer method holds ap.mutex
\* from entry to return, so a call made by a handler is one step of the handler.
\* Play stops the session before it starts the next, so at most one session,
\* with id 1, is attached.
playerVars == <<ctrl, isPlaying, isPaused, currentSong, startTime, pausedTime, duration,
                mixer, sessions, played>>
restVars == <<lockVars, th, last, audioVars, now, radioUsed, callsLeft, tapVars, scan>>

\* Play(p) returns an error
PlayFails(p) ==
  \/ ~IsURL(p) /\ ~isFileSupported(p)
  \/ OpenErr(p) # ""
  \/ DecodeErr(p) # ""

\* Stop()
ap_Stop ==
  /\ ctrl' = 0
  /\ mixer' = StopClearMixer(mixer)
  /\ isPlaying' = FALSE /\ isPaused' = FALSE /\ currentSong' = ""
  /\ UNCHANGED <<startTime, pausedTime, duration, sessions, played>>

\* Play(p), and SetDuration(d) when it returned nil and set is TRUE: the
\* unsupported extension returns before Stop, a failed open or decode after it
ap_Play(p, set, d) ==
  IF ~IsURL(p) /\ ~isFileSupported(p) THEN UNCHANGED playerVars
  ELSE IF PlayFails(p) THEN ap_Stop
  ELSE /\ ctrl' = 1
       /\ sessions' = <<[NewSession EXCEPT !.chainCtrl = 1]>>
       /\ mixer' = {1}
       /\ isPlaying' = TRUE /\ isPaused' = FALSE /\ currentSong' = p
       /\ startTime' = now /\ pausedTime' = PlayAccum(pausedTime) /\ played' = 0
       /\ duration' = IF set THEN d ELSE duration

\* TogglePause()
ap_TogglePause ==
  IF PauseGuard("TogglePause")
    THEN LET pausing == Pausing("TogglePause", isPaused)
         IN /\ sessions' = [sessions EXCEPT ![ctrl].paused = pausing]
            /\ isPaused' = pausing
            /\ pausedTime' = IF pausing THEN PauseAccum(pausedTime, startTime, now)
                             ELSE pausedTime
            /\ startTime' = IF pausing THEN now ELSE ResumeStart(startTime, now)
            /\ UNCHANGED <<ctrl, isPlaying, currentSong, duration, mixer, played>>
    ELSE UNCHANGED playerVars

\* the attached chain drains on the audio goroutine and its callback clears
\* the flags; a paused control wrapper streams silence and does not drain
Audio_Drained ==
  /\ mixer = {1} /\ ~sessions[1].paused
  /\ sessions' = [sessions EXCEPT ![1].exhausted = TRUE, ![1].streamerOpen = FALSE,
                                  ![1].readerOpen = FALSE]
  /\ mixer' = {}
  /\ isPlaying' = FALSE /\ isPaused' = FALSE
  /\ UNCHANGED <<ctrl, currentSong, startTime, pausedTime, duration, played>>
  /\ UNCHANGED <<restVars, uiVars>>

\* ---- the UI: Update -------------------------------------------------------------
\* the (model, cmd) a handler returns: k is 1 when a key handler returns
\* tickCmd(), 0 when it returns nil; the tick handler has taken one tick, so its
\* k is 0 with tickCmd() and -1 with nil
Return_m(mm, k) ==
  /\ ticks + k <= MaxTicks
  /\ m' = mm
  /\ ticks' = ticks + k

\* keys go to the radio form while it is in input mode
RadioInput == m.currentView = "radio" /\ radioBrowser.inputMode

hasNextTrack(mm) == mm.currentTrackIndex < Len(mm.currentPlaylist) - 1
hasPreviousTrack(mm) == mm.currentTrackIndex > 0

\* the index is inside the playlist
InPlaylist(mm) == mm.currentTrackIndex >= 0 /\ mm.currentTrackIndex < Len(mm.currentPlaylist)
TrackAt(mm) == mm.currentPlaylist[mm.currentTrackIndex + 1]

\* playCurrentTrack: its result, the model it leaves and its calls on the player
playCurrentTrack_ok(mm) == InPlaylist(mm) /\ ~PlayFails(TrackAt(mm).FilePath)
playCurrentTrack_m(mm) ==
  IF playCurrentTrack_ok(mm) THEN [mm EXCEPT !.playingSong = TrackAt(mm)] ELSE mm
playCurrentTrack_ap(mm) ==
  IF InPlaylist(mm) THEN ap_Play(TrackAt(mm).FilePath, TRUE, TrackAt(mm).DurationSecs)
  ELSE UNCHANGED playerVars

\* playNextTrack and playPreviousTrack: the index moves before the play
Step(mm, by) == [mm EXCEPT !.currentTrackIndex = @ + by]

isTrackFinished ==
  /\ m.playingSong # NilSong
  /\ \/ ~IsPlaying /\ ~IsPaused
     \/ GetDuration > 0 /\ GetPosition >= GetDuration - 1

\* case tickMsg
Update_tickMsg ==
  /\ ticks > 0
  /\ IF isTrackFinished
       THEN IF hasNextTrack(m)
              THEN /\ playCurrentTrack_ap(Step(m, 1))
                   /\ IF playCurrentTrack_ok(Step(m, 1))
                        THEN Return_m(playCurrentTrack_m(Step(m, 1)), 0)
                        ELSE Return_m([Step(m, 1) EXCEPT !.playingSong = NilSong], -1)
              ELSE /\ UNCHANGED playerVars
                   /\ Return_m([m EXCEPT !.playingSong = NilSong], -1)
       ELSE /\ UNCHANGED playerVars
            /\ Return_m(m, IF m.playingSong # NilSong \/ m.playingStation # "nil"
                             THEN 0 ELSE -1)
  /\ UNCHANGED <<restVars, radioBrowser, settingsBrowser, libraryManager, radioLibrary>>

\* the play/pause toggle of the space key and of control 1, with the radio
\* pause tracking
playPause ==
  LET wasPaused == IsPaused
      mm == IF m.playingStation = "nil" THEN m
            ELSE IF wasPaused
              THEN [m EXCEPT !.radioPausedTime =
                               IF m.radioWasPaused THEN @ + (now - m.radioStartTime) ELSE @,
                             !.radioStartTime = now]
              ELSE [m EXCEPT !.radioWasPaused = TRUE]
  IN /\ ap_TogglePause
     /\ Return_m(mm, IF IsPlaying' THEN 1 ELSE 0)

\* activateControl
activateControl ==
  CASE m.controlSelected = 0 ->
         IF hasPreviousTrack(m)
           THEN /\ playCurrentTrack_ap(Step(m, -1))
                /\ Return_m(playCurrentTrack_m(Step(m, -1)),
                            IF playCurrentTrack_ok(Step(m, -1)) THEN 1 ELSE 0)
           ELSE UNCHANGED playerVars /\ Return_m(m, 0)
    [] m.controlSelected = 1 -> playPause
    [] m.controlSelected = 2 ->
         IF hasNextTrack(m)
           THEN /\ playCurrentTrack_ap(Step(m, 1))
                /\ Return_m(playCurrentTrack_m(Step(m, 1)),
                            IF playCurrentTrack_ok(Step(m, 1)) THEN 1 ELSE 0)
           ELSE UNCHANGED playerVars /\ Return_m(m, 0)
    [] OTHER ->
         /\ ap_Stop
         /\ Return_m([m EXCEPT !.playingSong = NilSong, !.nowPlayingFocused = FALSE], 0)

\* case "space" without the focus on the now-playing controls
key_space ==
  /\ ~RadioInput /\ ~m.nowPlayingFocused
  /\ playPause
  /\ UNCHANGED <<restVars, radioBrowser, settingsBrowser, libraryManager, radioLibrary>>

\* case "space" and case "enter" with the now-playing controls focused
key_activate ==
  /\ ~RadioInput /\ m.nowPlayingFocused
  /\ activateControl
  /\ UNCHANGED <<restVars, radioBrowser, settingsBrowser, libraryManager, radioLibrary>>

\* case "enter" in the library view: the playlist of the context of the
\* entered song, at the song's index
key_enter_library ==
  /\ ~RadioInput /\ ~m.nowPlayingFocused /\ m.currentView = "library"
  /\ \E pl \in Playlists : \E i \in 0..(Len(pl) - 1) :
       LET mm == [m EXCEPT !.currentPlaylist = pl, !.currentTrackIndex = i]
       IN /\ playCurrentTrack_ap(mm)
          /\ Return_m(playCurrentTrack_m(mm), IF playCurrentTrack_ok(mm) THEN 1 ELSE 0)
  /\ UNCHANGED <<restVars, radioBrowser, settingsBrowser, libraryManager, radioLibrary>>

\* the model after a station has started
StationStarted(mm, st) ==
  [mm EXCEPT !.playingSong = NilSong, !.playingStation = st, !.radioStartTime = now,
             !.radioPausedTime = 0, !.radioWasPaused = FALSE]

\* handleRadioEnter on the station list: EnterSelected, then Play of the
\* station's stream URL
handleRadioEnter_list ==
  /\ ~RadioInput /\ ~m.nowPlayingFocused /\ m.currentView = "radio"
  /\ radioBrowser.currentView = "list"
  /\ IF radioBrowser.selected < Len(radioBrowser.stations)
       THEN LET st == radioBrowser.stations[radioBrowser.selected + 1]
            IN /\ ap_Play(st, FALSE, 0)
               /\ IF PlayFails(st) THEN Return_m(m, 0)
                  ELSE Return_m(StationStarted(m, st), 1)
       ELSE UNCHANGED playerVars /\ Return_m(m, 0)
  /\ UNCHANGED <<restVars, radioBrowser, settingsBrowser, libraryManager, radioLibrary>>

\* case "s" outside the radio forms: stop
key_s_stop ==
  /\ ~RadioInput
  /\ ~(m.currentView = "radio" /\ radioBrowser.currentView \in {"add", "quickadd"})
  /\ ap_Stop
  /\ Return_m([m EXCEPT !.playingSong = NilSong, !.playingStation = "nil",
                        !.radioStartTime = 0, !.radioPausedTime = 0,
                        !.radioWasPaused = FALSE, !.nowPlayingFocused = FALSE], 0)
  /\ UNCHANGED <<restVars, radioBrowser, settingsBrowser, libraryManager, radioLibrary>>

\* case "f": the next view
NextView(v) ==
  CASE v = "library" -> "folder"
    [] v = "folder" -> "radio"
    [] v = "radio" -> "settings"
    [] OTHER -> "library"

key_f ==
  /\ ~RadioInput
  /\ Return_m([m EXCEPT !.currentView = NextView(@)], 0)
  /\ UNCHANGED <<playerVars, restVars, radioBrowser, settingsBrowser, libraryManager,
                 radioLibrary>>

\* case "shift+tab": focus the now-playing controls
key_shift_tab ==
  /\ ~RadioInput
  /\ m.currentView = "library" /\ m.playingSong # NilSong /\ ~m.nowPlayingFocused
  /\ Return_m([m EXCEPT !.nowPlayingFocused = TRUE], 0)
  /\ UNCHANGED <<playerVars, restVars, radioBrowser, settingsBrowser, libraryManager,
                 radioLibrary>>

\* case "up" with the controls focused, and case "tab" in the library view:
\* leave the controls
key_up_focused ==
  /\ ~RadioInput /\ m.nowPlayingFocused
  /\ Return_m([m EXCEPT !.nowPlayingFocused = FALSE], 0)
  /\ UNCHANGED <<playerVars, restVars, radioBrowser, settingsBrowser, libraryManager,
                 radioLibrary>>

\* case "left" and case "right" with the controls focused
key_left_right ==
  /\ ~RadioInput /\ m.nowPlayingFocused
  /\ \E by \in {-1, 1} :
       /\ m.controlSelected + by \in 0..3
       /\ Return_m([m EXCEPT !.controlSelected = @ + by], 0)
  /\ UNCHANGED <<playerVars, restVars, radioBrowser, settingsBrowser, libraryManager,
                 radioLibrary>>

\* ---- the UI: the RadioBrowser ---------------------------------------------------
\* strings.Contains(url, ".pls") || strings.Contains(url, ".m3u")
IsPlaylistURL(t) ==
  \E i \in 1..Len(t) : i + 2 <= Len(t) /\ SubSeq(t, i, i + 2) = groovesalad

\* getCurrentFieldValue
getCurrentFieldValue(rb) ==
  IF rb.currentView = "quickadd"
    THEN CASE rb.formField = 0 -> rb.quickURL
           [] rb.formField = 1 -> rb.quickName
           [] OTHER -> <<>>
    ELSE CASE rb.formField = 0 -> rb.formName
           [] rb.formField = 1 -> rb.formURL
           [] OTHER -> rb.formRest[rb.formField]

\* StartInput
StartInput(rb) ==
  IF rb.currentView = "add"
    THEN [rb EXCEPT !.inputMode = TRUE, !.inputBuffer = getCurrentFieldValue(rb)]
    ELSE rb

\* FinishInput
FinishInput(rb) ==
  IF ~rb.inputMode THEN rb
  ELSE LET set == IF rb.currentView = "quickadd"
                    THEN CASE rb.formField = 0 -> [rb EXCEPT !.quickURL = rb.inputBuffer]
                           [] rb.formField = 1 -> [rb EXCEPT !.quickName = rb.inputBuffer]
                           [] OTHER -> rb
                    ELSE CASE rb.formField = 0 -> [rb EXCEPT !.formName = rb.inputBuffer]
                           [] rb.formField = 1 -> [rb EXCEPT !.formURL = rb.inputBuffer]
                           [] OTHER -> [rb EXCEPT !.formRest[rb.formField] = rb.inputBuffer]
       IN [set EXCEPT !.inputMode = FALSE, !.inputBuffer = <<>>]

\* CancelInput
CancelInput(rb) == [rb EXCEPT !.inputMode = FALSE, !.inputBuffer = <<>>]

\* showAddForm
showAddForm(rb) ==
  [rb EXCEPT !.currentView = "add", !.formName = <<>>, !.formURL = groovesalad,
             !.formRest = [i \in 2..6 |-> <<>>], !.formField = 0,
             !.inputMode = FALSE, !.inputBuffer = <<>>]

\* CancelAdd and CancelQuickAdd
CancelAdd(rb) ==
  [rb EXCEPT !.currentView = "list", !.stations = radioLibrary.stations,
             !.selected = IF Len(radioLibrary.stations) > 0 THEN 0 ELSE @]

\* MoveUp and MoveDown of the RadioBrowser
rb_MoveUp(rb) ==
  CASE rb.currentView = "list" -> [rb EXCEPT !.selected = IF @ > 0 THEN @ - 1 ELSE @]
    [] rb.currentView = "add" -> [rb EXCEPT !.formField = IF @ > 0 THEN @ - 1 ELSE @]
    [] rb.currentView = "quickadd" -> [rb EXCEPT !.formField = IF @ = 1 THEN 0 ELSE @]
    [] OTHER -> rb

rb_MoveDown(rb) ==
  CASE rb.currentView = "list" ->
         [rb EXCEPT !.selected = IF @ < Len(rb.stations) - 1 THEN @ + 1 ELSE @]
    [] rb.currentView = "add" -> [rb EXCEPT !.formField = IF @ < 6 THEN @ + 1 ELSE @]
    [] rb.currentView = "quickadd" -> [rb EXCEPT !.formField = IF @ = 0 THEN 1 ELSE @]
    [] OTHER -> rb

\* the keys of the radio form in input mode: enter, esc, backspace, a character
key_input_enter ==
  /\ RadioInput
  /\ radioBrowser' = [FinishInput(radioBrowser) EXCEPT !.inputAsked = FALSE]
  /\ UNCHANGED <<playerVars, restVars, m, ticks, settingsBrowser, libraryManager,
                 radioLibrary>>

key_input_esc ==
  /\ RadioInput
  /\ radioBrowser' = [CancelInput(radioBrowser) EXCEPT !.inputAsked = FALSE]
  /\ UNCHANGED <<playerVars, restVars, m, ticks, settingsBrowser, libraryManager,
                 radioLibrary>>

key_input_backspace ==
  /\ RadioInput
  /\ Len(radioBrowser.inputBuffer) > 0
  /\ radioBrowser' = [radioBrowser EXCEPT
                        !.inputBuffer = SubSeq(@, 1, Len(@) - 1)]
  /\ UNCHANGED <<playerVars, restVars, m, ticks, settingsBrowser, libraryManager,
                 radioLibrary>>

key_input_char ==
  /\ RadioInput
  /\ Len(radioBrowser.inputBuffer) < MaxInput
  /\ \E ch \in Typed :
       radioBrowser' = [radioBrowser EXCEPT !.inputBuffer = Append(@, ch)]
  /\ UNCHANGED <<playerVars, restVars, m, ticks, settingsBrowser, libraryManager,
                 radioLibrary>>

\* handleRadioEnter on the add form and on the quick add modal: IsInputMode()
\* is false here, the input-mode keys are taken before
handleRadioEnter_form ==
  /\ ~RadioInput /\ ~m.nowPlayingFocused /\ m.currentView = "radio"
  /\ radioBrowser.currentView \in {"add", "quickadd"}
  /\ radioBrowser' = [StartInput(radioBrowser) EXCEPT !.inputAsked = TRUE]
  /\ UNCHANGED <<playerVars, restVars, m, ticks, settingsBrowser, libraryManager,
                 radioLibrary>>

\* case "esc" in the radio view, outside input mode
key_esc_radio ==
  /\ ~RadioInput /\ m.currentView = "radio"
  /\ radioBrowser.currentView \in {"add", "quickadd"}
  /\ radioBrowser' = [CancelAdd(radioBrowser) EXCEPT !.inputAsked = FALSE]
  /\ UNCHANGED <<playerVars, restVars, m, ticks, settingsBrowser, libraryManager,
                 radioLibrary>>

\* case "a" in the radio view
key_a_radio ==
  /\ ~RadioInput /\ m.currentView = "radio"
  /\ radioBrowser' = [showAddForm(radioBrowser) EXCEPT !.inputAsked = FALSE]
  /\ UNCHANGED <<playerVars, restVars, m, ticks, settingsBrowser, libraryManager,
                 radioLibrary>>

\* case "up" and case "down" in the radio view
key_up_down_radio ==
  /\ ~RadioInput /\ ~m.nowPlayingFocused /\ m.currentView = "radio"
  /\ \E mv \in {"up", "down"} :
       radioBrowser' = IF mv = "up" THEN rb_MoveUp(radioBrowser)
                       ELSE rb_MoveDown(radioBrowser)
  /\ radioBrowser' # radioBrowser
  /\ UNCHANGED <<playerVars, restVars, m, ticks, settingsBrowser, libraryManager,
                 radioLibrary>>

\* AddStation of the RadioLibrary, reached from SaveStation and SaveQuickStation
\* with a name and a URL: a playlist URL may fail to resolve; st names the
\* stream the station is stored with
AddStation_ok(url, resolves) == ~IsPlaylistURL(url) \/ resolves

\* case "s" on the add form: SaveStation
key_s_add ==
  /\ ~RadioInput /\ m.currentView = "radio" /\ radioBrowser.currentView = "add"
  /\ Len(radioLibrary.stations) < MaxStations
  /\ \E resolves \in BOOLEAN, st \in UiStations :
       IF radioBrowser.formName # <<>> /\ radioBrowser.formURL # <<>>
          /\ AddStation_ok(radioBrowser.formURL, resolves)
         THEN /\ radioLibrary' = [radioLibrary EXCEPT !.stations = Append(@, st)]
              /\ radioBrowser' = [radioBrowser EXCEPT
                                    !.stations = radioLibrary'.stations,
                                    !.currentView = "list",
                                    !.selected = Len(radioLibrary'.stations) - 1]
         ELSE UNCHANGED <<radioLibrary, radioBrowser>>
  /\ UNCHANGED <<playerVars, restVars, m, ticks, settingsBrowser, libraryManager>>

\* ---- the UI: the LibraryManager -----------------------------------------------
\* the order sort.Strings and the sort by lower-cased title put on the names used
Rank(x) ==
  CASE x = "A" -> 1 [] x = "B" -> 2
    [] x = "f_dec" -> 3 [] x = "f_ok" -> 4 [] x = "f_open" -> 5 [] x = "f_unsup" -> 6
    [] OTHER -> 0

\* what the scan of a folder of the library finds
scanMusicLibrary(f) == IF f = "A" THEN <<Song("f_ok", 2)>>
                       ELSE <<Song("f_open", 0), Song("f_dec", 0)>>

RECURSIVE InsertName(_, _)
InsertName(seq, x) ==
  IF seq = <<>> THEN <<x>>
  ELSE IF Rank(x) < Rank(Head(seq)) THEN <<x>> \o seq
  ELSE <<Head(seq)>> \o InsertName(Tail(seq), x)

\* sort.Strings(lm.folders)
RECURSIVE SortNames(_)
SortNames(seq) ==
  IF seq = <<>> THEN <<>> ELSE InsertName(SortNames(Tail(seq)), Head(seq))

RECURSIVE InsertSong(_, _)
InsertSong(seq, x) ==
  IF seq = <<>> THEN <<x>>
  ELSE IF Rank(x.Title) < Rank(Head(seq).Title) THEN <<x>> \o seq
  ELSE <<Head(seq)>> \o InsertSong(Tail(seq), x)

\* sort.Slice(lm.songs, ...) by lower-cased title
RECURSIVE SortSongs(_)
SortSongs(seq) ==
  IF seq = <<>> THEN <<>> ELSE InsertSong(SortSongs(Tail(seq)), Head(seq))

\* the songs of news appended to songs, without those whose FilePath is there
RECURSIVE Merge(_, _)
Merge(songs, news) ==
  IF news = <<>> THEN songs
  ELSE IF \E i \in 1..Len(songs) : songs[i].FilePath = Head(news).FilePath
    THEN Merge(songs, Tail(news))
    ELSE Merge(Append(songs, Head(news)), Tail(news))

\* AddFolder: scanOk is the outcome of scanMusicLibrary
AddFolder(lm, f, scanOk) ==
  IF \E i \in 1..Len(lm.folders) : lm.folders[i] = f THEN lm
  ELSE IF ~scanOk THEN [lm EXCEPT !.folders = SortNames(Append(@, f))]
  ELSE [lm EXCEPT !.folders = SortNames(Append(@, f)),
                  !.songs = SortSongs(Merge(@, scanMusicLibrary(f)))]

\* RescanLibrary: every folder scans, or none does
RECURSIVE Rescan(_, _)
Rescan(songs, folders) ==
  IF folders = <<>> THEN songs
  ELSE Rescan(Merge(songs, scanMusicLibrary(Head(folders))), Tail(folders))

RescanLibrary(lm, scanOk) ==
  [lm EXCEPT !.songs = IF scanOk THEN SortSongs(Rescan(<<>>, lm.folders)) ELSE <<>>]

\* ClearLibrary; clears counts the calls, modulo 2
ClearLibrary(lm) ==
  [lm EXCEPT !.folders = <<>>, !.songs = <<NoLibraryLoaded>>, !.clears = (@ + 1) % 2]

GetFolderCount == Len(libraryManager.folders)
GetSongCount == Len(libraryManager.songs)

\* ClearLibrary of the RadioLibrary
rl_ClearLibrary(rl) == [rl EXCEPT !.stations = <<>>, !.clears = (@ + 1) % 2]

\* case "a" in the folder view on a directory: AddFolder, and on success the
\* library view
key_a_folder ==
  /\ ~RadioInput /\ m.currentView = "folder"
  /\ \E f \in Folders, scanOk \in BOOLEAN, saveOk \in BOOLEAN :
       LET known == \E i \in 1..Len(libraryManager.folders) : libraryManager.folders[i] = f
       IN /\ libraryManager' = AddFolder(libraryManager, f, scanOk)
          /\ m' = IF known \/ (scanOk /\ saveOk) THEN [m EXCEPT !.currentView = "library"]
                  ELSE m
  /\ UNCHANGED <<playerVars, restVars, ticks, radioBrowser, settingsBrowser, radioLibrary>>

\* case "r" in the library view: RescanLibrary
key_r ==
  /\ ~RadioInput /\ m.currentView = "library"
  /\ \E scanOk \in BOOLEAN :
       libraryManager' = RescanLibrary(libraryManager, scanOk)
  /\ UNCHANGED <<playerVars, restVars, m, ticks, radioBrowser, settingsBrowser, radioLibrary>>

\* ---- the UI: the SettingsBrowser ---------------------------------------------
maxItems == 2
NumThemes == 6

\* MoveUp and MoveDown of the SettingsBrowser
sb_MoveUp(sb) ==
  CASE sb.currentView = "main" -> [sb EXCEPT !.selected = IF @ > 0 THEN @ - 1 ELSE @]
    [] sb.currentView = "themes" ->
         [sb EXCEPT !.themeSelected = IF @ > 0 THEN @ - 1 ELSE @]
    [] OTHER -> [sb EXCEPT !.confirmSelected = IF @ > 0 THEN @ - 1 ELSE @]

sb_MoveDown(sb) ==
  CASE sb.currentView = "main" ->
         [sb EXCEPT !.selected = IF @ < maxItems THEN @ + 1 ELSE @]
    [] sb.currentView = "themes" ->
         [sb EXCEPT !.themeSelected = IF @ < NumThemes - 1 THEN @ + 1 ELSE @]
    [] OTHER -> [sb EXCEPT !.confirmSelected = IF @ < 1 THEN @ + 1 ELSE @]

\* the selection a confirmation view opens with: 0 is Cancel
CancelPreselected == 0

\* a test of the confirmation that takes either selection
AnySelectionConfirms(sb) == TRUE

\* sb.confirmSelected == 1
ConfirmSelected(sb) == sb.confirmSelected = 1

\* EnterSelected on the main view
sb_EnterMain(sb) ==
  CASE sb.selected = 0 ->
         [sb EXCEPT !.currentView = "confirm_clear_music", !.confirmAction = "clear_music",
                    !.confirmSelected = CancelPreselected]
    [] sb.selected = 1 ->
         [sb EXCEPT !.currentView = "confirm_clear_radio", !.confirmAction = "clear_radio",
                    !.confirmSelected = CancelPreselected]
    [] OTHER -> [sb EXCEPT !.currentView = "themes", !.themeSelected = sb.theme]

\* case "enter" in the settings view: EnterSelected; saveOk is the outcome of
\* the write of the settings or library file
key_enter_settings ==
  /\ ~RadioInput /\ ~m.nowPlayingFocused /\ m.currentView = "settings"
  /\ \E saveOk \in BOOLEAN :
       LET sb == settingsBrowser
           back == [sb EXCEPT !.currentView = "main"]
       IN CASE sb.currentView = "main" ->
                 /\ settingsBrowser' = sb_EnterMain(sb)
                 /\ UNCHANGED <<libraryManager, radioLibrary>>
            [] sb.currentView = "themes" ->
                 /\ settingsBrowser' = IF saveOk THEN [back EXCEPT !.theme = sb.themeSelected]
                                       ELSE [sb EXCEPT !.theme = sb.themeSelected]
                 /\ UNCHANGED <<libraryManager, radioLibrary>>
            [] sb.currentView = "confirm_clear_music" ->
                 IF ConfirmSelected(sb)
                   THEN /\ libraryManager' = ClearLibrary(libraryManager)
                        /\ settingsBrowser' = IF saveOk THEN back ELSE sb
                        /\ UNCHANGED radioLibrary
                   ELSE /\ settingsBrowser' = back
                        /\ UNCHANGED <<libraryManager, radioLibrary>>
            [] OTHER ->
                 IF ConfirmSelected(sb)
                   THEN /\ radioLibrary' = rl_ClearLibrary(radioLibrary)
                        /\ settingsBrowser' = IF saveOk THEN back ELSE sb
                        /\ UNCHANGED libraryManager
                   ELSE /\ settingsBrowser' = back
                        /\ UNCHANGED <<libraryManager, radioLibrary>>
  /\ UNCHANGED <<playerVars, restVars, m, ticks, radioBrowser>>

\* case "esc" in the settings view: BackPressed
key_esc_settings ==
  /\ ~RadioInput /\ m.currentView = "settings"
  /\ settingsBrowser.currentView # "main"
  /\ settingsBrowser' = [settingsBrowser EXCEPT !.currentView = "main"]
  /\ UNCHANGED <<playerVars, restVars, m, ticks, radioBrowser, libraryManager, radioLibrary>>

\* case "up" and case "down" in the settings view
key_up_down_settings ==
  /\ ~RadioInput /\ ~m.nowPlayingFocused /\ m.currentView = "settings"
  /\ \E mv \in {"up", "down"} :
       settingsBrowser' = IF mv = "up" THEN sb_MoveUp(settingsBrowser)
                          ELSE sb_MoveDown(settingsBrowser)
  /\ settingsBrowser' # settingsBrowser
  /\ UNCHANGED <<playerVars, restVars, m, ticks, radioBrowser, libraryManager, radioLibrary>>

\* ---- specifications --------------------------------------------------------
StopSteps(t) ==
  \/ Stop_Lock(t) \/ Stop_LockSpeaker1(t) \/ Stop_Detach(t)
  \/ Stop_LockSpeaker2(t) \/ Stop_Clear(t)

PlaySteps(t) ==
  \/ playWithFallback_Loop(t) \/ playDirectly_Open(t) \/ playDirectly_Decode(t)
  \/ playDirectly_Lock(t) \/ playDirectly_Set(t) \/ playDirectly_ReadCtrl(t)
  \/ playDirectly_Add(t)

PauseSteps(t) == Pause_Lock(t) \/ Pause_LockSpeaker(t) \/ Pause_Apply(t)

QuerySteps(t) == Query_RLock(t) \/ Query_LockSpeaker(t) \/ Query_Read(t)

AudioNext ==
  \/ Audio_Lock \/ (\E c \in todo : Audio_Stream(c)) \/ Audio_Unlock
  \/ Callback_Lock \/ Callback_Clear \/ Callback_Close

\* the control context: one thread issuing every call
Control(t) ==
  \/ (\E p \in UrlSrc \cup FileSrc : Play_Call(t, p))
  \/ (\E st \in Stations : PlayRadioStation_Call(t, st))
  \/ Stop_Call(t) \/ Pause_Call(t) \/ Resume_Call(t) \/ TogglePause_Call(t)
  \/ IsPlaying_Call(t) \/ IsPaused_Call(t)
  \/ StopSteps(t) \/ PlaySteps(t) \/ PauseSteps(t) \/ QuerySteps(t)

Next == Control("ui") \/ AudioNext

Spec == Init /\ [][Next]_vars

\* the control context and the pull loop are scheduled: a call that has started
\* and a pull that has started keep taking the steps they can take
CallSteps(t) == StopSteps(t) \/ PlaySteps(t) \/ PauseSteps(t) \/ QuerySteps(t)

FairSpec == Spec /\ WF_vars(AudioNext) /\ WF_vars(CallSteps("ui"))

\* the transport calls on one local track, with the clock running
TimeNext ==
  \/ Play_Call("ui", "f_ok")
  \/ Stop_Call("ui") \/ Pause_Call("ui") \/ Resume_Call("ui") \/ TogglePause_Call("ui")
  \/ StopSteps("ui") \/ PauseSteps("ui")
  \/ playDirectly_Open("ui") \/ playDirectly_Decode("ui") \/ playDirectly_Lock("ui")
  \/ playDirectly_Set("ui") \/ playDirectly_ReadCtrl("ui") \/ playDirectly_Add("ui")
  \/ AudioNext
  \/ Tick

TimeSpec == Init /\ [][TimeNext]_vars

\* the same with the track length injected from the tags
ProgressNext ==
  \/ Play_Call("ui", "f_ok")
  \/ (\E d \in DurationValues : SetDuration_Call("ui", d))
  \/ Stop_Call("ui") \/ Pause_Call("ui") \/ Resume_Call("ui")
  \/ StopSteps("ui") \/ PauseSteps("ui")
  \/ playDirectly_Open("ui") \/ playDirectly_Decode("ui") \/ playDirectly_Lock("ui")
  \/ playDirectly_Set("ui") \/ playDirectly_ReadCtrl("ui") \/ playDirectly_Add("ui")
  \/ AudioNext
  \/ Tick

ProgressSpec == Init /\ [][ProgressNext]_vars

\* two threads issuing Pause, Resume and TogglePause on the session "ui" plays
PauseCalls(t) == Pause_Call(t) \/ Resume_Call(t) \/ TogglePause_Call(t) \/ PauseSteps(t)

ToggleNext ==
  \/ Play_Call("ui", "f_ok")
  \/ StopSteps("ui")
  \/ playDirectly_Open("ui") \/ playDirectly_Decode("ui") \/ playDirectly_Lock("ui")
  \/ playDirectly_Set("ui") \/ playDirectly_ReadCtrl("ui") \/ playDirectly_Add("ui")
  \/ PauseCalls("ui") \/ PauseCalls("bg")
  \/ AudioNext
  \/ Tick

ToggleSpec == Init /\ [][ToggleNext]_vars

\* two threads: "ui" issues Play calls while "bg" issues Stop calls
RaceInit == InitEngine /\ callsLeft = [t \in Threads |-> RaceCalls] /\ FreshInstall

RaceNext ==
  \/ (\E p \in UrlSrc \cup FileSrc : Play_Call("ui", p))
  \/ StopSteps("ui") \/ PlaySteps("ui")
  \/ Stop_Call("bg") \/ StopSteps("bg")
  \/ AudioNext

RaceSpec == RaceInit /\ [][RaceNext]_vars

\* one track played and stopped while the pull loop feeds its Sample Tap and
\* the visualizer reads the snapshot
TapAudioNext ==
  \/ Audio_Lock
  \/ (\E c \in todo, n \in PullSizes, ok \in BOOLEAN, f \in Frames, e \in SrcErrs :
        Audio_StreamTap(c, n, ok, f, e))
  \/ Tap_Store \/ Audio_Unlock
  \/ Callback_Lock \/ Callback_Clear \/ Callback_Close

TapNext ==
  \/ Play_Call("ui", "f_ok")
  \/ Stop_Call("ui") \/ StopSteps("ui")
  \/ playDirectly_Open("ui") \/ playDirectly_Decode("ui") \/ playDirectly_Lock("ui")
  \/ playDirectly_Set("ui") \/ playDirectly_ReadCtrl("ui") \/ playDirectly_Add("ui")
  \/ GetAudioSamples_Call("ui") \/ GetAudioSamples_RLock("ui") \/ GetAudioSamples_Copy("ui")
  \/ Caller_Write("ui")
  \/ TapAudioNext

TapInit == InitEngine /\ callsLeft = [t \in Threads |-> TapCalls] /\ FreshInstall

TapSpec == TapInit /\ [][TapNext]_vars

\* playlists fetched and parsed
ParseNext ==
  \/ resolvePlaylistURL_Fetch
  \/ parsePLS_Line \/ parseM3U_Line \/ parse_Return

ParseSpec == Init /\ [][ParseNext]_vars

\* the UI's use of the duration: SetDuration follows the Play of a local track
SetTrackDuration(t, d) ==
  /\ currentSong \in FileSrc \ {""}
  /\ SetDuration_Call(t, d)

\* local tracks with their length, and network streams
DurationNext ==
  \/ Play_Call("ui", "f_ok") \/ Play_Call("ui", "u_ok")
  \/ (\E d \in DurationValues : SetTrackDuration("ui", d))
  \/ Stop_Call("ui") \/ StopSteps("ui") \/ PlaySteps("ui")
  \/ AudioNext
  \/ Tick

DurationSpec == Init /\ [][DurationNext]_vars

\* the UI with a stored library and a stored station: tracks and stations
\* are started, paused, resumed and stopped while the clock runs
StoredStations == <<"u_ok">>
StoredLibrary == [folders |-> <<"A">>, songs |-> scanMusicLibrary("A")]

UIInit ==
  /\ InitEngine /\ callsLeft = [t \in Threads |-> -1]
  /\ initialModel(StoredStations, StoredLibrary)

\* the clock of the UI scenario
UiTick == now < MaxUiClock /\ Tick

UINext ==
  \/ Update_tickMsg
  \/ key_space
  \/ key_activate
  \/ key_enter_library
  \/ handleRadioEnter_list
  \/ key_s_stop
  \/ key_f
  \/ key_shift_tab
  \/ key_up_focused
  \/ key_left_right
  \/ Audio_Drained
  \/ UiTick

UISpec == UIInit /\ [][UINext]_vars

\* a station is started, paused and resumed while the clock runs
RadioTimeNext ==
  \/ key_f
  \/ handleRadioEnter_list
  \/ key_space
  \/ Update_tickMsg
  \/ Tick

RadioTimeSpec == UIInit /\ [][RadioTimeNext]_vars

\* a first start: the quick add modal, the add form and their input mode
RadioNext ==
  \/ key_f
  \/ key_input_esc
  \/ key_input_enter
  \/ key_input_backspace
  \/ key_input_char
  \/ handleRadioEnter_form
  \/ key_esc_radio
  \/ key_a_radio
  \/ key_up_down_radio
  \/ key_s_add

RadioSpec == Init /\ [][RadioNext]_vars

\* the settings view and the library: folders are added, the library is
\* rescanned, and the libraries are cleared from the confirmation views
SettingsNext ==
  \/ key_f
  \/ key_a_folder
  \/ key_r
  \/ key_enter_settings
  \/ key_esc_settings
  \/ key_up_down_settings

SettingsSpec == UIInit /\ [][SettingsNext]_vars

\* ---- properties ------------------------------------------------------------
\* C1: in a run whose control context issues Play and Stop (and no
\* PlayRadioStation), at most one decode chain is attached to the mixer in
\* every state: Play tears the previous chain down before attaching its own.
C1_AtMostOneChain == ~radioUsed => Cardinality(mixer) <= 1

\* a second Play has attached its chain after the first session was torn down
C1_Witness ==
  /\ ~radioUsed /\ Len(sessions) = 2 /\ mixer = {2}
  /\ sessions[1].streamerNil /\ th["ui"].pc = "idle" /\ th["ui"].op = "Play"

\* C2: at the step where PlayRadioStation returns nil, exactly one decode
\* chain, the new one, is attached to the mixer.
C2_RadioTearsDown ==
  [][(th["ui"].op = "PlayRadioStation" /\ th["ui"].pc = "pd_add" /\ th'["ui"].pc = "idle")
       => mixer' = {th["ui"].sess}]_vars

\* C3: no state has the pull loop holding the speaker lock and waiting for
\* ap.mutex while a foreground call holds ap.mutex and waits for the speaker
\* lock.
WaitsForSpeaker(t) == th[t].pc \in {"stop_spk1", "stop_spk2", "pause_spk", "q_spk"}
HoldsMutex(t) == mutexW = t \/ t \in mutexR
C3_NoLockCycle ==
  ~(apc = "cb" /\ speakerMu = "audio" /\ \E t \in Threads : HoldsMutex(t) /\ WaitsForSpeaker(t))

\* C4: with a Stop racing a Play, at most one chain is ever attached, and once
\* both calls have returned (the Play with nil) and the pull loop is between
\* pulls, the engine is Playing with one chain attached or Stopped with none.
PlayingOneChain == isPlaying /\ ~isPaused /\ ctrl # 0 /\ Cardinality(mixer) = 1
StoppedNoChain == ~isPlaying /\ ~isPaused /\ mixer = {}
C4_StopPlaySerialized ==
  /\ Cardinality(mixer) <= 1
  /\ (/\ \A t \in Threads : th[t].pc = "idle" /\ callsLeft[t] = 0
      /\ th["ui"].op = "Play" /\ last["ui"] = NoErr /\ th["bg"].op = "Stop"
      /\ apc = "idle")
       => (PlayingOneChain \/ StoppedNoChain)

\* the error playDirectly returns for a candidate, "" when it plays
FailKind(u) == IF OpenErr(u) # "" THEN OpenErr(u) ELSE DecodeErr(u)
Playable(u) == FailKind(u) = ""
FirstPlayable(l) ==
  CHOOSE k \in DOMAIN l : Playable(l[k]) /\ \A j \in 1..(k - 1) : ~Playable(l[j])
FallbackReturned(t) == th[t].pc = "idle" /\ th[t].urls # <<>>

\* C5: when playWithFallback has returned on a list of N candidates that all
\* fail, it has tried exactly the N candidates, each once and in list order,
\* and the error returned is the failure of candidate N.
C5_FallbackExhaustion ==
  \A t \in Threads :
    (FallbackReturned(t) /\ \A i \in DOMAIN th[t].urls : ~Playable(th[t].urls[i]))
      => /\ th[t].tried = th[t].urls
         /\ last[t] = [idx |-> Len(th[t].urls),
                       kind |-> FailKind(th[t].urls[Len(th[t].urls)])]

\* three failing candidates were tried and the third one's decode error returned
C5_Witness ==
  /\ th["ui"].pc = "idle"
  /\ th["ui"].tried = <<"u_conn", "u_conn", "u_dec">>
  /\ last["ui"] = [idx |-> 3, kind |-> "decode"]

\* C6: on a list whose first playable candidate is at index k, the candidates
\* tried are at every moment a prefix of the list no longer than k, and when
\* playWithFallback has returned it returned nil, tried exactly candidates
\* 1..k, and the engine plays candidate k.
C6_FallbackSuccess ==
  \A t \in Threads :
    (th[t].urls # <<>> /\ \E i \in DOMAIN th[t].urls : Playable(th[t].urls[i]))
      => LET k == FirstPlayable(th[t].urls)
         IN /\ Len(th[t].tried) <= k
            /\ th[t].tried = SubSeq(th[t].urls, 1, Len(th[t].tried))
            /\ th[t].pc = "idle" =>
                 /\ last[t] = NoErr
                 /\ Len(th[t].tried) = k
                 /\ currentSong = th[t].urls[k]

\* [bad, good, good]: the second candidate plays and the third was never tried
C6_Witness ==
  /\ th["ui"].pc = "idle"
  /\ th["ui"].urls = <<"u_conn", "u_ok", "u_ok">>
  /\ th["ui"].tried = <<"u_conn", "u_ok">>
  /\ last["ui"] = NoErr /\ isPlaying /\ mixer # {}

\* C7: while a session exists, GetPosition() is the time the session has spent
\* Playing since its Play, whatever Pause, Resume and TogglePause calls and
\* clock advances have happened.
C7_PositionIsPlayedTime == isPlaying => GetPosition = played

\* Play at 0, Pause at 4, Resume at 6, read at 9 (units of half a second):
\* 2.0s + 1.5s = 3.5s
C7_Witness ==
  /\ isPlaying /\ ~isPaused /\ pausedTime = 4 /\ startTime = 6 /\ now = 9
  /\ played = 7 /\ GetPosition = 7

\* C8: when Stop() returns, GetPosition() = 0, IsPlaying() and IsPaused() are
\* false and no error is returned; and every step taken while a Stop() runs on
\* an engine that is already stopped leaves the engine fields, the control
\* wrappers and the mixer as they were.
StoppedEngine ==
  ctrl = 0 /\ ~isPlaying /\ ~isPaused /\ currentSong = "" /\ mixer = {}
C8_StopIdempotent ==
  [][/\ (th["ui"].op = "Stop" /\ th["ui"].pc = "stop_clear" /\ th'["ui"].pc = "idle")
          => (GetPosition' = 0 /\ ~IsPlaying' /\ ~IsPaused' /\ StoppedEngine'
              /\ last'["ui"] = NoErr)
     /\ (th["ui"].op = "Stop" /\ th["ui"].pc # "idle" /\ StoppedEngine)
          => UNCHANGED <<engineVars, mixer, sessions>>]_vars

\* a Stop() is about to clear an engine that an earlier Stop() stopped after
\* the session had accumulated time
C8_Witness ==
  /\ th["ui"].op = "Stop" /\ th["ui"].pc = "stop_clear" /\ StoppedEngine
  /\ sessions # <<>> /\ pausedTime > 0 /\ now > startTime

\* C9: once Stop() has returned, the decoder and the reader of every session
\* are closed.
C9_StopReleasesHandles ==
  (th["ui"].pc = "idle" /\ th["ui"].op = "Stop")
    => \A s \in DOMAIN sessions : ~sessions[s].streamerOpen /\ ~sessions[s].readerOpen

\* C10: once a session's stream is exhausted, its completion callback
\* eventually completes: the decoder and the reader are closed.
C10_CallbackCompletes ==
  \A s \in 1..(MaxSessions + 1) :
    (s \in DOMAIN sessions /\ sessions[s].exhausted)
      ~> (s \in DOMAIN sessions /\ ~sessions[s].streamerOpen /\ ~sessions[s].readerOpen)

\* C11: once the completion callback of the current session has run, every
\* public query answers what it answers after Stop(): IsPlaying() and
\* IsPaused() false, GetPosition() and GetProgress() 0, CurrentSong() empty.
Finished ==
  /\ ctrl # 0 /\ sessions[ctrl].exhausted /\ ~sessions[ctrl].streamerOpen
  /\ th["ui"].pc = "idle"
C11_FinishedLikeStopped ==
  Finished => /\ ~IsPlaying /\ ~IsPaused /\ GetPosition = 0
              /\ GetProgress.num = 0 /\ CurrentSong = ""

\* C12: every step of an open attempt before its decode has succeeded leaves
\* ctrl, the flags, startTime, the accumulator, the mixer and the sessions as
\* they were, and a Play or PlayRadioStation that returns an error has created
\* no chain and returns with the mixer unchanged.
UiStep == th'["ui"] # th["ui"]
C12_NoHalfInitializedSession ==
  [][/\ (UiStep /\ (th["ui"].pc = "pd_open"
                     \/ (th["ui"].pc = "pd_decode" /\ DecodeErr(th["ui"].fp) # "")))
          => UNCHANGED <<ctrl, isPlaying, isPaused, startTime, pausedTime, mixer, sessions>>
     /\ (/\ th["ui"].pc \in {"pd_open", "pd_decode", "fb_loop"} /\ th'["ui"].pc = "idle"
         /\ last'["ui"] # NoErr)
          => (th["ui"].sess = 0 /\ UNCHANGED <<mixer, sessions>>)]_vars

\* a station whose stream fails to decode was tried while a session plays:
\* that session is still the attached one
C12_Witness ==
  /\ th["ui"].pc = "idle" /\ th["ui"].op = "PlayRadioStation"
  /\ last["ui"].kind = "decode" /\ isPlaying /\ ctrl = 1 /\ mixer = {1}

\* C13: outside the decode half of an attempt no reader opened by an attempt
\* is open: every error return has closed what the attempt opened.
C13_ErrorPathsCloseReader ==
  \A t \in Threads : th[t].pc # "pd_decode" => ~th[t].rdr

\* a local path with an unsupported extension was opened, rejected and closed
C13_Witness ==
  /\ th["ui"].pc = "idle" /\ th["ui"].tried = <<"f_unsup">>
  /\ last["ui"].kind = "unsupported" /\ ~th["ui"].rdr

\* C14: a Pause() that finds the engine not Playing and a Resume() that finds
\* it not Paused return with every engine field, the wrappers' pause flags and
\* the mixer unchanged.
C14_PauseResumeGuarded ==
  [][(/\ UiStep /\ th["ui"].pc = "pause_lock"
      /\ \/ th["ui"].op = "Pause" /\ ~(isPlaying /\ ~isPaused)
         \/ th["ui"].op = "Resume" /\ ~(isPlaying /\ isPaused))
       => (th'["ui"].pc = "idle" /\ UNCHANGED <<engineVars, sessions, mixer>>)]_vars

\* Pause() has returned on an engine that an earlier Stop() had stopped
C14_Witness ==
  /\ th["ui"].pc = "idle" /\ th["ui"].op = "Pause" /\ ctrl = 0 /\ ~isPlaying
  /\ sessions # <<>> /\ pausedTime > 0

\* C15: with two threads issuing TogglePause, Pause and Resume, the accumulator
\* (plus the running interval when not paused) is the time spent Playing, and
\* a TogglePause that reaches its critical section pauses a Playing engine and
\* resumes a Paused one.
C15_ToggleAtomic ==
  [][/\ isPlaying' => IF isPaused' THEN pausedTime' = played'
                                  ELSE pausedTime' + (now' - startTime') = played'
     /\ \A t \in Threads :
          (th[t].op = "TogglePause" /\ th[t].pc = "pause_apply" /\ th'[t].pc = "idle")
            => /\ isPaused' = ~isPaused
               /\ sessions'[ctrl].paused = ~isPaused
               /\ IF isPaused
                    THEN startTime' = now /\ pausedTime' = pausedTime
                    ELSE pausedTime' = pausedTime + (now - startTime)]_vars

\* a TogglePause of "bg" has resumed at 4 a session paused at 2 while a
\* Resume of "ui" is waiting for the lock
C15_Witness ==
  /\ th["bg"].pc = "idle" /\ th["bg"].op = "TogglePause"
  /\ th["ui"].pc = "pause_lock" /\ th["ui"].op = "Resume"
  /\ isPlaying /\ ~isPaused /\ pausedTime = 2 /\ startTime = 4 /\ now = 6 /\ played = 4

\* C16: GetProgress() is 0 when the duration is not positive, exactly 1 when
\* the position exceeds a positive duration, and always between 0 and 1.
C16_ProgressClamped ==
  /\ GetDuration <= 0 => GetProgress = Zero
  /\ (GetDuration > 0 /\ GetPosition > GetDuration) => GetProgress = One
  /\ GetProgress.den > 0 /\ 0 <= GetProgress.num /\ GetProgress.num <= GetProgress.den

\* a track of length 3 has played for 5
C16_Witness == duration = 3 /\ isPlaying /\ GetPosition = 5 /\ GetProgress = One

\* C17: when a successful Play has set the engine fields, IsPlaying() is true,
\* IsPaused() false, the accumulator 0 and GetPosition() 0; when it returns
\* the engine is still Playing with a zero accumulator and GetPosition() is
\* the time since that instant.
C17_PlayResetsToPlaying ==
  [][/\ (th["ui"].op = "Play" /\ th["ui"].pc = "pd_set" /\ th'["ui"].pc = "pd_read")
          => (IsPlaying' /\ ~IsPaused' /\ pausedTime' = 0 /\ GetPosition' = 0)
     /\ (th["ui"].op = "Play" /\ th["ui"].pc = "pd_add" /\ th'["ui"].pc = "idle")
          => (/\ last'["ui"] = NoErr /\ IsPlaying' /\ ~IsPaused' /\ pausedTime' = 0
              /\ GetPosition' = now' - startTime')]_vars

\* a second Play has returned after the first session had been paused
C17_Witness ==
  /\ th["ui"].pc = "idle" /\ th["ui"].op = "Play" /\ last["ui"] = NoErr
  /\ Len(sessions) = 2 /\ sessions[1].paused /\ ctrl = 2 /\ isPlaying
  /\ pausedTime = 0 /\ startTime > 1 /\ now = startTime

\* C18: a Play of a local path with an unsupported extension returns the
\* unsupported-format error in its first step, having opened nothing and
\* changed no engine field, wrapper or mixer entry.
UnsupportedLocal == {"f_unsup", ""}
C18_UnsupportedRejectedEarly ==
  [][(/\ th["ui"].pc = "idle" /\ UiStep /\ th'["ui"].op = "Play"
      /\ th'["ui"].fp \in UnsupportedLocal)
       => (/\ th'["ui"].pc = "idle" /\ last'["ui"].kind = "unsupported"
           /\ th'["ui"].tried = <<>> /\ UNCHANGED <<engineVars, sessions, mixer>>)]_vars

\* the rejected Play left the playing session attached
C18_Witness ==
  /\ th["ui"].pc = "idle" /\ th["ui"].op = "Play" /\ th["ui"].fp = "f_unsup"
  /\ last["ui"].kind = "unsupported" /\ isPlaying /\ ctrl = 1 /\ mixer = {1}

\* C19: PlayRadioStation hands playWithFallback the StreamURLs list when it is
\* not empty, else the StreamURL alone when it is not empty, else the URL
\* alone; on a nil station it returns an error at once, with nothing tried and
\* nothing changed.
C19_StationPreference ==
  [][(th["ui"].pc = "idle" /\ UiStep /\ th'["ui"].op = "PlayRadioStation")
       => LET st == th'["ui"].st
          IN IF st.nil
               THEN /\ th'["ui"].pc = "idle" /\ last'["ui"].kind = "nil"
                    /\ th'["ui"].tried = <<>>
                    /\ UNCHANGED <<engineVars, sessions, mixer>>
               ELSE /\ th'["ui"].pc = "fb_loop"
                    /\ th'["ui"].urls =
                         IF st.StreamURLs # <<>> THEN st.StreamURLs
                         ELSE IF st.StreamURL # "" THEN <<st.StreamURL>>
                         ELSE <<st.URL>>]_vars

\* a station with both a list and a single StreamURL played from its list
C19_Witness ==
  /\ th["ui"].pc = "idle" /\ th["ui"].op = "PlayRadioStation"
  /\ th["ui"].st.StreamURLs = <<"u_conn", "u_ok">> /\ th["ui"].st.StreamURL = "u_conn"
  /\ th["ui"].tried = <<"u_conn", "u_ok">> /\ last["ui"] = NoErr

\* C20: isPaused is never true while isPlaying is false.
C20_FlagsEncodeThreeStates == isPaused => isPlaying

\* Pause() has returned on a session that had already finished
C20_Witness ==
  /\ th["ui"].pc = "idle" /\ th["ui"].op = "Pause" /\ ctrl # 0
  /\ sessions[ctrl].exhausted /\ ~isPlaying /\ ~isPaused

\* C21: whenever no call is inside the engine's critical section, IsPlaying()
\* and IsPaused() are not both true, the pause flag of the current control
\* wrapper equals the cached isPaused, and without a wrapper isPaused is false.
C21_SinkAgreesWithFlags ==
  mutexW = "none" =>
    /\ ~(IsPlaying /\ IsPaused)
    /\ ctrl # 0 => sessions[ctrl].paused = isPaused
    /\ ctrl = 0 => ~isPaused

\* C22: the slice a GetAudioSamples call returns has exactly 24 values, none
\* of them negative, and all of them 0 while no snapshot has been published.
NonNegative(a) == a.sq >= 0 /\ a.n > 0
C22_SnapshotShape ==
  [][(th["ui"].pc = "gs_copy" /\ th'["ui"].pc = "idle")
       => /\ Len(heap'[got']) = 24
          /\ \A b \in 1..24 : NonNegative(heap'[got'][b])
          /\ audioSamples = 0 => \A b \in 1..24 : heap'[got'][b].sq = 0]_vars

\* a call has returned the amplitudes of a loud window
C22_Witness ==
  /\ th["ui"].pc = "idle" /\ th["ui"].op = "GetAudioSamples"
  /\ got # 0 /\ audioSamples # 0 /\ got # audioSamples
  /\ heap[got] = heap[audioSamples] /\ heap[got][1].sq > 0

\* C23: when no session is active (after Stop() or after the completion
\* callback) GetAudioSamples() answers 24 zeros.
NoSessionActive ==
  /\ th["ui"].pc = "idle" /\ apc = "idle" /\ mutexW = "none"
  /\ ~isPlaying /\ ~isPaused /\ mixer = {}
C23_SnapshotResetWhenIdle ==
  NoSessionActive => \A b \in 1..24 : GetAudioSamples[b].sq = 0

\* C24: a publication leaves the slice the caller holds as it was, a write of
\* the caller into its slice leaves the stored snapshot as it was, and the
\* slice a call returns is a new one holding the whole snapshot stored at
\* that moment.
C24_ReadersGetCopy ==
  [][/\ (got # 0 /\ audioSamples' # audioSamples)
          => (got' = got /\ heap'[got] = heap[got])
     /\ (got # 0 /\ got' = got /\ heap'[got] # heap[got])
          => /\ audioSamples' = audioSamples
             /\ audioSamples # 0 => heap'[audioSamples] = heap[audioSamples]
     /\ (th["ui"].pc = "gs_copy" /\ th'["ui"].pc = "idle")
          => (got' # audioSamples /\ heap'[got'] = GetAudioSamples)]_vars

\* the caller was handed silence and wrote into it; a loud window was
\* published afterwards
C24_Witness ==
  /\ got # 0 /\ audioSamples # 0
  /\ heap[got][1] = Mark /\ heap[got][2] = Silent
  /\ heap[audioSamples][1] # Mark /\ heap[audioSamples][2].sq > 0

\* C25: what the last Stream call of a tap returned is what its source
\* returned, Err() is the source's error, and a window that held a non-silent
\* frame has published a snapshot that is not all zero.
C25_TapPassThrough ==
  /\ pull.out = [n |-> pull.n, ok |-> pull.ok, f |-> pull.f]
  /\ pull.outErr = pull.err
  /\ (pull.stored /\ pull.heard) => \E b \in 1..24 : heap[audioSamples][b].sq > 0

\* C29: once a Stream call has returned its tap holds fewer than 1024 samples;
\* the snapshot is replaced only inside a call whose window reached 1024, and
\* every such call replaces it; a pull with ok false or n = 0 changes no
\* window and no snapshot.
Streaming(k) == apc = "tap_store" /\ sessions[cur].chainCtrl = k
C29_ResetOnFull ==
  [][/\ \A k \in DOMAIN sessions' :
          ~Streaming(k)' => BufLen(sessions'[k].sampleBuffer) < 1024
     /\ audioSamples' # audioSamples => (apc = "tap_store" /\ pull.window >= 1024)
     /\ apc' # "tap_store" => (pull'.stored <=> pull'.window >= 1024)
     /\ (apc = "mix" /\ pull' # pull /\ (~pull'.ok \/ pull'.n = 0))
          => /\ \A k \in DOMAIN sessions :
                  sessions'[k].sampleBuffer = sessions[k].sampleBuffer
             /\ UNCHANGED <<audioSamples, heap>>]_vars

\* a second pull of 512 frames on top of 528 has published and emptied the window
C29_Witness ==
  /\ apc = "mix" /\ pull.stored /\ pull.window = 1040 /\ pull.n = 512
  /\ ctrl # 0 /\ sessions[ctrl].sampleBuffer = <<>> /\ audioSamples # 0

\* C30: the 24 bands of a published window are contiguous, their sizes differ
\* by at most one, and every sample of the window lies in exactly one band.
InBand(i, b, len) == BandStart(b, len) <= i /\ i < BandEnd(b, len)
C30_BandsPartitionWindow ==
  pull.stored =>
    LET len == pull.window
    IN /\ \A b \in 1..23 : BandEnd(b, len) = BandStart(b + 1, len)
       /\ \A b, c \in 1..24 :
            (BandEnd(b, len) - BandStart(b, len)) - (BandEnd(c, len) - BandStart(c, len)) <= 1
       /\ \A i \in 0..(len - 1) : Cardinality({b \in 1..24 : InBand(i, b, len)}) = 1

\* C28: a step that sets a wrapper's pause flag, detaches a wrapper's
\* streamer, or adds a chain to or removes one from the mixer is taken by the
\* holder of the speaker lock.
GraphChanged ==
  \/ mixer' # mixer
  \/ \E c \in DOMAIN sessions :
       \/ sessions'[c].paused # sessions[c].paused
       \/ sessions'[c].streamerNil # sessions[c].streamerNil
C28_GraphMutatedUnderSpeakerLock ==
  [][GraphChanged =>
       /\ \A t \in Threads : th'[t] # th[t] => speakerMu = t
       /\ apc' # apc => speakerMu = "audio"]_vars

\* C26: parsePLS returns, in file order, the values of exactly the lines
\* FileN=<value> (N a number) whose value starts with http, and the
\* no-stream-URL error when there is no such line.
RECURSIVE Pick(_, _)
Pick(body, want) ==
  IF body = <<>> THEN <<>>
  ELSE IF Head(body) \in want THEN <<Head(body)>> \o Pick(Tail(body), want)
  ELSE Pick(Tail(body), want)
Texts(ls, field) == [i \in 1..Len(ls) |-> ls[i][field]]
PlsWanted ==
  {l \in PlsLines : l.key \in {"File1", "File2"} /\ l.eq
                      /\ l.val \in {"http://a/stream", "http://b/stream"}}
C26_PlsFileOrder ==
  (scan.fmt = "pls" /\ scan.ret \in {"ok", "err_nourl"}) =>
    LET want == Texts(Pick(scan.body, PlsWanted), "val")
    IN IF want = <<>> THEN scan.ret = "err_nourl"
       ELSE scan.ret = "ok" /\ scan.urls = want

\* C27: parseM3U returns, in file order, exactly the lines that (blanks around
\* them apart) are not empty, do not start with # and start with http, and the
\* no-stream-URL error when there is no such line.
M3uWanted == {l \in M3uLines : l.text \in {"http://x/stream", "http://y/stream"}}
C27_M3uEntries ==
  (scan.fmt = "m3u" /\ scan.ret \in {"ok", "err_nourl"}) =>
    LET want == Texts(Pick(scan.body, M3uWanted), "text")
    IN IF want = <<>> THEN scan.ret = "err_nourl"
       ELSE scan.ret = "ok" /\ scan.urls = want

\* a comment, an entry, a relative path: the entry alone is returned
C27_Witness ==
  /\ scan.fmt = "m3u" /\ scan.ret = "ok"
  /\ Texts(scan.body, "text") = <<"#EXTINF:-1,x", "http://x/stream", "rel/a.mp3">>
  /\ scan.urls = <<"http://x/stream">>

\* C31: while the session in progress was started from a network URL,
\* GetDuration() is 0 and GetProgress() is 0.
C31_RadioDurationZero ==
  (th["ui"].pc = "idle" /\ isPlaying /\ IsURL(currentSong))
    => (GetDuration = 0 /\ GetProgress.num = 0)

\* C32: whenever no call is inside the critical section and the engine reports
\* Stopped, every chain attached to the mixer is exhausted.
C32_StoppedMeansNoLiveChain ==
  (mutexW = "none" /\ ~IsPlaying /\ ~IsPaused)
    => \A c \in mixer : sessions[c].exhausted

\* the listening time renderProgressBar shows for a station that is not paused
listeningTime ==
  IF m.radioWasPaused THEN m.radioPausedTime + (now - m.radioStartTime)
  ELSE now - m.radioStartTime

\* C33: on a tick that finds the current song finished, a playlist with a next
\* track moves currentTrackIndex on by exactly one, plays the track at the new
\* index and schedules the next tick; a playlist without a next track clears
\* the now-playing song and schedules no tick; and the index of a non-empty
\* playlist is inside the playlist afterwards.
C33_TickAdvances ==
  [][(Update_tickMsg /\ isTrackFinished) =>
       /\ hasNextTrack(m) =>
            /\ m'.currentTrackIndex = m.currentTrackIndex + 1
            /\ m'.playingSong = TrackAt(m')
            /\ isPlaying' /\ currentSong' = TrackAt(m').FilePath
            /\ ticks' = ticks
       /\ ~hasNextTrack(m) => (m'.playingSong = NilSong /\ ticks' = ticks - 1)
       /\ m'.currentPlaylist # <<>> => InPlaylist(m')]_vars

\* C34: while a station plays, the listening time shown is the time the
\* station has spent playing: the time spent paused is not counted, whatever
\* the number of pauses.
C34_ListeningTimeExcludesPauses ==
  (m.playingStation # "nil" /\ IsPlaying) => listeningTime = played

\* C35: at most one tick command is outstanding at any time.
C35_OneTickChain == ticks <= 1

\* C36: the UI model never holds a now-playing song and a now-playing station
\* together.
C36_SongOrStation == ~(m.playingSong # NilSong /\ m.playingStation # "nil")


\* the confirmation views of the SettingsBrowser
ConfirmViews == {"confirm_clear_music", "confirm_clear_radio"}

\* C37: ClearLibrary is called on the music library only by enter in the
\* confirm_clear_music view with Confirm selected, and on the radio library only
\* by enter in the confirm_clear_radio view with Confirm selected; a
\* confirmation view opens with Cancel selected; enter with Cancel selected and
\* back both return to the main view without a ClearLibrary call.
C37_ClearOnlyWhenConfirmed ==
  [][LET sb == settingsBrowser
         musicCleared == libraryManager'.clears # libraryManager.clears
         radioCleared == radioLibrary'.clears # radioLibrary.clears
     IN /\ musicCleared => /\ key_enter_settings
                           /\ sb.currentView = "confirm_clear_music"
                           /\ sb.confirmSelected = 1
        /\ radioCleared => /\ key_enter_settings
                           /\ sb.currentView = "confirm_clear_radio"
                           /\ sb.confirmSelected = 1
        /\ (sb.currentView \notin ConfirmViews /\ sb'.currentView \in ConfirmViews)
             => sb'.confirmSelected = 0
        /\ (sb.currentView \in ConfirmViews
            /\ \/ key_enter_settings /\ sb.confirmSelected = 0
               \/ key_esc_settings)
             => (sb'.currentView = "main" /\ ~musicCleared /\ ~radioCleared)]_vars

\* both libraries have been cleared, and a confirmation has been cancelled
C37_Witness ==
  /\ libraryManager.clears = 1 /\ radioLibrary.clears = 1
  /\ settingsBrowser.currentView \in ConfirmViews /\ settingsBrowser.confirmSelected = 0

\* C38: in the quick add view, enter outside input mode opens input mode on
\* the selected field with the buffer holding the field's text, and enter in
\* input mode writes the buffer to the field and leaves input mode.
C38_QuickAddEnter ==
  [][LET rb == radioBrowser
     IN /\ (handleRadioEnter_form /\ rb.currentView = "quickadd")
             => (rb'.inputMode /\ rb'.inputBuffer = getCurrentFieldValue(rb))
        /\ (key_input_enter /\ rb.currentView = "quickadd")
             => (~rb'.inputMode /\ getCurrentFieldValue(rb') = rb.inputBuffer)]_vars

\* C39: after ClearLibrary of the LibraryManager has returned, GetFolderCount()
\* and GetSongCount() are both 0.
C39_ClearLeavesNothing ==
  [][libraryManager'.clears # libraryManager.clears
       => (Len(libraryManager'.folders) = 0 /\ Len(libraryManager'.songs) = 0)]_vars

====
